---- MODULE Spec2Model ----
(***************************************************************************)
(* The transactional storage stack of PySimpleDB: file blocks, the buffer  *)
(* pool (plain_storage/bufferslot.py), the log manager                     *)
(* (formatted_storage/log.py), the per-transaction lock manager            *)
(* (plain_storage/lock.py), the recovery manager                           *)
(* (formatted_storage/recovery.py) and Transaction                         *)
(* (formatted_storage/tx.py), with crash and restart (SimpleDB.init).      *)
(*                                                                         *)
(* One logged data file is modelled.  A page is a map from a few           *)
(* non-overlapping locations (offsets) to values; the log is a sequence of *)
(* blocks of records whose byte sizes decide when a new log block starts.  *)
(* LogMgr.__append_new_block calls Page.clear_contents, which the Page     *)
(* class of file.py names clear; it is modelled as clearing the page.      *)
(***************************************************************************)
EXTENDS Integers, Sequences, FiniteSets, TLC

\* ---------------------------------------------------------------- bounds
MaxTx == 3          \* transaction numbers 1..MaxTx per run of the server
MaxBegun == 2       \* client transactions begun, all before the last crash
NumBuffs == 1       \* slots of the buffer pool (test_tx.py runs with 1)
InitBlocks == 2     \* blocks of the data file when the database is created
MaxBlocks == 3      \* the data file grows by append up to this many blocks
NumOffsets == 1     \* locations per page
MaxVal == 1         \* values 0..MaxVal
MaxOps == 3         \* client calls per transaction before commit/rollback
MaxPins == 2        \* pins one transaction takes on one block
MaxCrashes == 1     \* crashes per behaviour
FileNameLen == 40   \* characters of the data file's name
MaxAppends == 4     \* records appended to the log on its own
LogStrLen == 40     \* characters of a string in a log record
MaxLogInt == 7      \* an integer in a log record
WideStrLen == 40    \* characters of the string field of a file of records
MaxFileBlocks == 2  \* blocks of a file of records
MaxSlot == 3        \* _currentslot of a page read past its last record
MaxKey == 3         \* keys of the index
MaxRid == 2         \* record identifiers of the index
MaxTreeOps == 4     \* inserts and deletes on the index
NumThreads == 2     \* threads that share one lock table
NumLockBlocks == 1  \* blocks the threads lock
MaxLockCalls == 3   \* calls of PageLockMgr by one thread
NumPoolSlots == 2   \* slots of the pool the threads share
InitPoolBlocks == 1 \* blocks of the file the threads pin
MaxPoolBlocks == 2  \* the file grows by pin_new up to this many blocks
MaxPoolCalls == 2   \* calls of the pool by one thread
InitFmBlocks == 1   \* blocks of the file the threads read and write
MaxFmAppends == 2   \* appends to that file
MaxFmVal == 1       \* a block written holds one of 1..MaxFmVal
MaxFmCalls == 2     \* calls of the file manager by one thread
MaxStrLen == 10     \* characters of a string written to a record
MaxChar == 97       \* code point of the characters written
MaxPageOps == 3     \* calls on the page of records

\* ------------------------------------------------------ program constants
BLOCK_SIZE == 400
INT_SIZE == 4
MAX_BYTES_PER_CHAR == 4
END_OF_FILE == -1
CHECKPOINT == 0
START == 1
COMMIT == 2
ROLLBACK == 3
SETINT == 4
SETSTRING == 5
LAST_POS == 0
EMPTY == 0
INUSE == 1
StrFieldLen == 8

Tx == 1..MaxTx
Blocks == 0..(MaxBlocks - 1)
Offsets == 1..NumOffsets
Val == 0..MaxVal
Slots == 1..NumBuffs
LockKeys == Blocks \cup {END_OF_FILE}
NoBlock == -2       \* BufferSlot._blk is None
NoVal == -1         \* ghost: no value recorded
WaitPcs == {"pinwait", "newwait", "undowait"}

VARIABLES
  up,          \* the server process is running
  crashes,     \* crashes so far
  begun,       \* client transactions begun so far
  nextTxNum,   \* Transaction.__next_tx_num
  disk,        \* data file: block number -> page
  fsize,       \* data file: number of blocks
  bufs,        \* BasicBufferMgr._bufferpool
  avail,       \* BasicBufferMgr._num_available
  logDisk,     \* log file: sequence of blocks, each a sequence of records
  logPage,     \* LogMgr._mypage: records of the current log block in memory
  status,      \* per transaction: none, active, committed, rolledback, failed
  pc,          \* per transaction: idle, or where its thread is suspended
  warg,        \* per transaction: the block its suspended pin asks for
  woken,       \* per transaction: BufferMgr._cv notified it while it waited
  undo,        \* per transaction: records its rollback has still to undo
  ops,         \* per transaction: number of calls made so far
  locks,       \* PageLockMgr._locks of each transaction
  locktbl,     \* PageLockMgr._locktbl of each transaction
  txPins,      \* BufferList._pins of each transaction, as counts per block
  txBuffers,   \* BufferList._buffers of each transaction: block -> slot
  appended,    \* history: every record appended, by log block
  wal,         \* history: outcome of the data page writes so far
  preVal,      \* history: value of a location before the tx first wrote it
  lastSet,     \* history: value the tx last set at a location
  expect,      \* history: value last set at a location by a committed tx
  released,    \* history: locks and pins given up by commit/rollback
  ret,         \* history: what the call of the last step returned, if a get
  rpage,       \* a page of records: bytes, current slot, last call
  lpage,       \* a log page: bytes, currentpos, blocks written
  rfile,       \* a file of records: its blocks, the current record
  bt,          \* a B-tree index: directory and leaf blocks, the scan
  ltab,        \* a lock table shared by threads: counts, mutex, the threads
  pool,        \* a BasicBufferMgr used by threads: slots, counts, locks, frames
  fmgr         \* a FileMgr used by threads: one file, its position, locks, frames

vars == <<up, crashes, begun, nextTxNum, disk, fsize, bufs, avail, logDisk,
          logPage, status, pc, warg, woken, undo, ops, locks, locktbl, txPins,
          txBuffers, appended, wal, preVal, lastSet, expect, released, ret, rpage, lpage,
          rfile, bt,
          ltab,
          pool,
          fmgr>>

auxvars == <<rpage, lpage, rfile, bt, ltab, pool, fmgr>>

mainvars == <<up, crashes, begun, nextTxNum, disk, fsize, bufs, avail, logDisk,
              logPage, status, pc, warg, woken, undo, ops, locks, locktbl,
              txPins, txBuffers, appended, wal, preVal, lastSet, expect,
              released, ret>>

Min(S) == CHOOSE x \in S : \A y \in S : x <= y

ZeroPage == [o \in Offsets |-> 0]
EmptySlot == [blk |-> NoBlock, pins |-> 0, modified_by |-> -1, lsn |-> -1,
              contents |-> ZeroPage]
NoLocks == [k \in LockKeys |-> "N"]
EmptyTbl == [k \in LockKeys |-> 0]
NoGhost == [b \in Blocks |-> [o \in Offsets |-> NoVal]]
NoRet == [tx |-> 0, blk |-> 0, off |-> 0, val |-> NoVal]

Rec(op, t, b, o, v) == [op |-> op, tx |-> t, blk |-> b, off |-> o, val |-> v]

\* --------------------------------------------------------------- log sizes
str_size(n) == INT_SIZE + n * MAX_BYTES_PER_CHAR

\* a string value v is modelled as a string of v characters
StrLen(v) == v

RecSize(r) ==
  INT_SIZE +
  (CASE r.op = CHECKPOINT -> INT_SIZE
     [] r.op \in {START, COMMIT, ROLLBACK} -> 2 * INT_SIZE
     [] r.op = SETINT -> 2 * INT_SIZE + str_size(FileNameLen) + 3 * INT_SIZE
     [] r.op = SETSTRING -> 2 * INT_SIZE + str_size(FileNameLen)
                            + 2 * INT_SIZE + str_size(StrLen(r.val)))

RECURSIVE currentpos(_)
currentpos(page) ==
  IF page = <<>> THEN INT_SIZE
  ELSE currentpos(SubSeq(page, 1, Len(page) - 1)) + RecSize(page[Len(page)])

\* ------------------------------------------------------------- the store
\* The state the storage layers share, threaded through the calls of one step.
Store == [bufs |-> bufs, avail |-> avail, disk |-> disk, fsize |-> fsize,
          logDisk |-> logDisk, logPage |-> logPage, appended |-> appended,
          wal |-> wal, woken |-> woken]

Install(S) ==
  /\ bufs' = S.bufs
  /\ avail' = S.avail
  /\ disk' = S.disk
  /\ fsize' = S.fsize
  /\ logDisk' = S.logDisk
  /\ logPage' = S.logPage
  /\ appended' = S.appended
  /\ wal' = S.wal

\* ------------------------------------------------------------------ LogMgr
current_lsn(S) == Len(S.logDisk) - 1

LogMgr_write(S) == [S EXCEPT !.logDisk[Len(S.logDisk)] = S.logPage]

\* variant: flush only when the LSN is beyond the current block
LogMgr_flush_later(S, lsn) ==
  IF lsn > current_lsn(S) THEN LogMgr_write(S) ELSE S

LogMgr_flush(S, lsn) ==
  IF lsn >= current_lsn(S) THEN LogMgr_write(S) ELSE S

append_new_block(S) ==
  [S EXCEPT !.logPage = <<>>,
            !.logDisk = Append(@, <<>>),
            !.appended = Append(@, <<>>)]

\* variant: the full page is not written before the new block is started
LogMgr_append_unwritten(S, rec) ==
  LET S1 == IF currentpos(S.logPage) + RecSize(rec) >= BLOCK_SIZE
            THEN append_new_block(S)
            ELSE S
  IN [S1 EXCEPT !.logPage = Append(@, rec),
                !.appended[Len(S1.logDisk)] = Append(@, rec)]

LogMgr_append(S, rec) ==
  LET S1 == IF currentpos(S.logPage) + RecSize(rec) >= BLOCK_SIZE
            THEN append_new_block(LogMgr_write(S))
            ELSE S
  IN [S1 EXCEPT !.logPage = Append(@, rec),
                !.appended[Len(S1.logDisk)] = Append(@, rec)]

\* LogMgr.iterator: flush, then every record of the file, newest first
LogMgr_iterator(S) == LogMgr_write(S)

RECURSIVE Flatten(_)
Flatten(blocks) ==
  IF blocks = <<>> THEN <<>>
  ELSE Flatten(SubSeq(blocks, 1, Len(blocks) - 1)) \o blocks[Len(blocks)]

Reverse(s) == [i \in 1..Len(s) |-> s[Len(s) + 1 - i]]

\* the position, in a block, of the back-pointer that ends its k-th record:
\* the record's values begin INT_SIZE after the back-pointer before it
\* (LAST_POS for the first record) and the back-pointer follows the values
RECURSIVE PtrPos(_, _)
PtrPos(blk, k) ==
  IF k = 0 THEN LAST_POS ELSE PtrPos(blk, k - 1) + RecSize(blk[k])

\* Page.get_int at a position the iterator reads: LAST_POS holds the position
\* of the last back-pointer, a back-pointer that of the one before it
LogPage_get_int(blk, pos) ==
  LET ptr == [k \in 0..Len(blk) |-> PtrPos(blk, k)]
  IN IF pos = LAST_POS THEN ptr[Len(blk)]
     ELSE ptr[(CHOOSE k \in 1..Len(blk) : ptr[k] = pos) - 1]

\* BasicLogRecord(pg, pos): the record whose values begin at pos; where no
\* record was written, the zero bytes of the cleared page
BasicLogRecord(blk, pos) ==
  LET ptr == [k \in 0..Len(blk) |-> PtrPos(blk, k)]
  IN IF \E k \in 1..Len(blk) : ptr[k - 1] + INT_SIZE = pos
     THEN blk[CHOOSE k \in 1..Len(blk) : ptr[k - 1] + INT_SIZE = pos]
     ELSE Rec(0, 0, 0, 0, 0)

\* LogIterator.generator from block number n and position currentrec:
\* while has_next(), next()
RECURSIVE LogIterator_generator(_, _, _)
LogIterator_generator(file, n, currentrec) ==
  IF ~(currentrec > 0 \/ n > 0) THEN <<>>
  ELSE LET moved == currentrec = 0
           n1 == IF moved THEN n - 1 ELSE n
           c1 == IF moved THEN LogPage_get_int(file[n1 + 1], LAST_POS)
                 ELSE currentrec
           c2 == LogPage_get_int(file[n1 + 1], c1)
       IN <<BasicLogRecord(file[n1 + 1], c2 + INT_SIZE)>>
            \o LogIterator_generator(file, n1, c2)

\* LogIterator.__init__ on the current block, then every record it yields
LogIterator(S) ==
  LogIterator_generator(S.logDisk, current_lsn(S),
     LogPage_get_int(S.logDisk[Len(S.logDisk)], LAST_POS))

\* -------------------------------------------------------------- BufferSlot
\* history: every record appended with LSN <= lsn is in the log file
Durable(S, lsn) ==
  \A k \in 1..Len(S.appended) :
     (k - 1 <= lsn) => (k <= Len(S.logDisk) /\ S.logDisk[k] = S.appended[k])

BufferSlot_flush(S, i) ==
  LET b == S.bufs[i] IN
  IF b.modified_by > 0
  THEN LET S1 == LogMgr_flush(S, b.lsn)
       IN [S1 EXCEPT !.disk[b.blk] = b.contents,
                     !.bufs[i].modified_by = -1,
                     !.wal = IF ~Durable(S1, b.lsn) THEN "broken"
                             ELSE IF @ = "none" /\ b.lsn >= 0 THEN "ok"
                             ELSE @]
  ELSE S

BufferSlot_set(S, i, o, v, txnum, lsn) ==
  [S EXCEPT !.bufs[i].modified_by = txnum,
            !.bufs[i].lsn = IF lsn >= 0 THEN lsn ELSE @,
            !.bufs[i].contents[o] = v]

assign_to_block(S, i, b) ==
  LET S1 == BufferSlot_flush(S, i)
  IN [S1 EXCEPT !.bufs[i].blk = b,
                !.bufs[i].contents = S1.disk[b],
                !.bufs[i].pins = 0]

\* the formatter initialises every location of the page; Page.append writes
\* the page at the end of the file
assign_to_new(S, i) ==
  LET S1 == BufferSlot_flush(S, i)
  IN [S1 EXCEPT !.bufs[i].contents = ZeroPage,
                !.bufs[i].blk = S1.fsize,
                !.disk[S1.fsize] = ZeroPage,
                !.fsize = @ + 1,
                !.bufs[i].pins = 0]

\* ---------------------------------------------------------- BasicBufferMgr
RECURSIVE FlushFrom(_, _, _)
FlushFrom(S, txnum, i) ==
  IF i > NumBuffs THEN S
  ELSE FlushFrom(IF S.bufs[i].modified_by = txnum
                 THEN BufferSlot_flush(S, i) ELSE S, txnum, i + 1)

flush_all(S, txnum) == FlushFrom(S, txnum, 1)

find_existing_buffer(S, b) ==
  LET c == {i \in Slots : S.bufs[i].blk = b}
  IN IF c = {} THEN 0 ELSE Min(c)

\* variant: the first slot, pinned or not
choose_first_buffer(S) == Min(Slots)

choose_unpinned_buffer(S) ==
  LET c == {i \in Slots : ~(S.bufs[i].pins > 0)}
  IN IF c = {} THEN 0 ELSE Min(c)

\* variant: the available count goes down with every pin
CountPin_always(S, i) ==
  [S EXCEPT !.avail = @ - 1, !.bufs[i].pins = @ + 1]

CountPin(S, i) ==
  [S EXCEPT !.avail = IF S.bufs[i].pins > 0 THEN @ ELSE @ - 1,
            !.bufs[i].pins = @ + 1]

\* variant: an unpinned slot is looked for before the block's own slot
BasicBufferMgr_pin_free_first(S, b) ==
  LET e == find_existing_buffer(S, b)
      u == choose_unpinned_buffer(S)
  IN IF u = 0 THEN [slot |-> 0, S |-> S]
     ELSE IF e # 0 THEN [slot |-> e, S |-> CountPin(S, e)]
     ELSE [slot |-> u, S |-> CountPin(assign_to_block(S, u, b), u)]

\* result: the slot pinned (0 for None) and the store afterwards
BasicBufferMgr_pin(S, b) ==
  LET e == find_existing_buffer(S, b)
      u == choose_unpinned_buffer(S)
  IN IF e # 0 THEN [slot |-> e, S |-> CountPin(S, e)]
     ELSE IF u = 0 THEN [slot |-> 0, S |-> S]
     ELSE [slot |-> u, S |-> CountPin(assign_to_block(S, u, b), u)]

BasicBufferMgr_pin_new(S) ==
  LET u == choose_unpinned_buffer(S)
  IN IF u = 0 THEN [slot |-> 0, S |-> S]
     ELSE LET S1 == assign_to_new(S, u)
          IN [slot |-> u,
              S |-> [S1 EXCEPT !.avail = @ - 1, !.bufs[u].pins = @ + 1]]

BasicBufferMgr_unpin(S, i) ==
  LET S1 == [S EXCEPT !.bufs[i].pins = @ - 1]
  IN IF S1.bufs[i].pins > 0 THEN S1 ELSE [S1 EXCEPT !.avail = @ + 1]

\* --------------------------------------------------------------- BufferMgr
\* unpin notifies every thread waiting in pin or pin_new when the slot's pin
\* count reaches zero
BufferMgr_unpin(S, i) ==
  LET S1 == BasicBufferMgr_unpin(S, i)
  IN IF S1.bufs[i].pins > 0 THEN S1
     ELSE [S1 EXCEPT !.woken = [t \in Tx |-> pc[t] \in WaitPcs]]

\* ------------------------------------------------ PageLockTable, PageLockMgr
\* a table is a map from lock key to lock value; 0 stands for no entry
has_xlock(tbl, k) == tbl[k] < 0

has_other_slocks(tbl, k) == tbl[k] > 1

PageLockTable_slock(tbl, k) == [tbl EXCEPT ![k] = @ + 1]

PageLockTable_xlock(tbl, k) == [tbl EXCEPT ![k] = -1]

PageLockTable_unlock(tbl, k) ==
  IF tbl[k] > 1 THEN [tbl EXCEPT ![k] = @ - 1] ELSE [tbl EXCEPT ![k] = 0]

\* the lock manager of transaction t: its lock map and its own lock table
\* (PageLockMgr.__init__ creates a PageLockTable for every manager)
LockMgr(t) == [locks |-> locks[t], tbl |-> locktbl[t]]

PageLockMgr_slock(L, k) ==
  IF L.locks[k] = "N"
  THEN [locks |-> [L.locks EXCEPT ![k] = "S"],
        tbl |-> PageLockTable_slock(L.tbl, k)]
  ELSE L

PageLockMgr_xlock(L, k) ==
  IF L.locks[k] # "X"
  THEN LET L1 == PageLockMgr_slock(L, k)
       IN [locks |-> [L1.locks EXCEPT ![k] = "X"],
           tbl |-> PageLockTable_xlock(L1.tbl, k)]
  ELSE L

\* the request is granted without waiting
SLockFree(L, k) == L.locks[k] # "N" \/ ~has_xlock(L.tbl, k)

XLockFree(L, k) ==
  \/ L.locks[k] = "X"
  \/ /\ SLockFree(L, k)
     /\ ~has_other_slocks(PageLockMgr_slock(L, k).tbl, k)

PageLockMgr_release(L) ==
  [locks |-> NoLocks,
   tbl |-> [k \in LockKeys |->
              IF L.locks[k] # "N" THEN PageLockTable_unlock(L.tbl, k)[k]
              ELSE L.tbl[k]]]

SetLockMgr(t, L) ==
  /\ locks' = [locks EXCEPT ![t] = L.locks]
  /\ locktbl' = [locktbl EXCEPT ![t] = L.tbl]

\* -------------------------------------------------------------- BufferList
\* variant: one BufferMgr.unpin for every block of _buffers
RECURSIVE unpin_all_blocks(_, _, _)
unpin_all_blocks(S, pins, buffers) ==
  IF \A b \in Blocks : pins[b] = 0 THEN S
  ELSE LET b == Min({x \in Blocks : pins[x] > 0})
       IN unpin_all_blocks(BufferMgr_unpin(S, buffers[b]),
                           [pins EXCEPT ![b] = 0], buffers)

\* BufferList.unpin_all: one BufferMgr.unpin for every entry of _pins
RECURSIVE unpin_all(_, _, _)
unpin_all(S, pins, buffers) ==
  IF \A b \in Blocks : pins[b] = 0 THEN S
  ELSE LET b == Min({x \in Blocks : pins[x] > 0})
       IN unpin_all(BufferMgr_unpin(S, buffers[b]),
                    [pins EXCEPT ![b] = @ - 1], buffers)

RECURSIVE SumPins(_, _)
SumPins(pins, bs) ==
  IF bs = {} THEN 0
  ELSE LET b == Min(bs) IN pins[b] + SumPins(pins, bs \ {b})

\* ------------------------------------------------------------- RecoveryMgr
IsSet(r) == r.op \in {SETINT, SETSTRING}

\* SetIntRecord.undo stamps the buffer with the record's transaction,
\* SetStringRecord.undo with the transaction that performs the undo
UndoStamp(r, txnum) == IF r.op = SETINT THEN r.tx ELSE txnum

\* variant: the undo keeps the pin it took
undo_pinned_keep(S, i, r, txnum) ==
  BufferSlot_set(S, i, r.off, r.val, UndoStamp(r, txnum), -1)

\* LogRecord.undo once BufferMgr.pin has returned slot i
undo_pinned(S, i, r, txnum) ==
  BufferMgr_unpin(
    BufferSlot_set(S, i, r.off, r.val, UndoStamp(r, txnum), -1), i)

\* RecoveryMgr.__do_rollback: the records the scan undoes, in scan order
RECURSIVE do_rollback(_, _)
do_rollback(it, txnum) ==
  IF it = <<>> THEN <<>>
  ELSE LET r == Head(it) IN
       IF r.tx = txnum /\ r.op = START THEN <<>>
       ELSE (IF r.tx = txnum /\ IsSet(r) THEN <<r>> ELSE <<>>)
            \o do_rollback(Tail(it), txnum)

\* RecoveryMgr.__do_recover: the records the scan undoes, in scan order
RECURSIVE do_recover(_, _)
do_recover(it, finished) ==
  IF it = <<>> THEN <<>>
  ELSE LET r == Head(it) IN
       IF r.op = CHECKPOINT THEN <<>>
       ELSE IF r.op \in {COMMIT, ROLLBACK}
            THEN do_recover(Tail(it), finished \cup {r.tx})
       ELSE (IF r.tx \notin finished /\ IsSet(r) THEN <<r>> ELSE <<>>)
            \o do_recover(Tail(it), finished)

\* the undos of a recovery: no other thread runs, every pin finds a slot
RECURSIVE undo_each(_, _, _)
undo_each(S, list, txnum) ==
  IF list = <<>> THEN S
  ELSE LET p == BasicBufferMgr_pin(S, Head(list).blk)
       IN undo_each(undo_pinned(p.S, p.slot, Head(list), txnum),
                    Tail(list), txnum)

RecoveryMgr_commit(S, txnum) ==
  LET S1 == flush_all(S, txnum)
      S2 == LogMgr_append(S1, Rec(COMMIT, txnum, 0, 0, 0))
  IN LogMgr_flush(S2, current_lsn(S2))

\* RecoveryMgr.rollback after __do_rollback: it writes a COMMIT record
RecoveryMgr_rollback_end(S, txnum) ==
  LET S1 == flush_all(S, txnum)
      S2 == LogMgr_append(S1, Rec(COMMIT, txnum, 0, 0, 0))
  IN LogMgr_flush(S2, current_lsn(S2))

\* RecoveryMgr.recover up to its flush_all: the store to which the
\* CHECKPOINT record is appended
RecoveryMgr_recover_flushed(S, txnum) ==
  LET S1 == LogMgr_iterator(S)
      S2 == undo_each(S1, do_recover(LogIterator(S1), {}), txnum)
  IN flush_all(S2, txnum)

RecoveryMgr_recover(S, txnum) ==
  LET S4 == LogMgr_append(RecoveryMgr_recover_flushed(S, txnum),
                          Rec(CHECKPOINT, -1, 0, 0, 0))
  IN LogMgr_flush(S4, current_lsn(S4))

\* ------------------------------------------------------------- Transaction
Live(t) == up /\ status[t] = "active"

Idle(t) == up /\ status[t] = "active" /\ pc[t] = "idle"

\* a call of the client, counted against the bound on calls
Call(t) ==
  /\ Idle(t)
  /\ ops[t] < MaxOps
  /\ ops' = [ops EXCEPT ![t] = @ + 1]

\* Transaction.__init__: the next number, and RecoveryMgr writes START
Begin ==
  /\ up
  /\ nextTxNum < MaxTx
  /\ begun < MaxBegun
  /\ crashes < MaxCrashes
  /\ begun' = begun + 1
  /\ LET t == nextTxNum + 1
         S == LogMgr_append(Store, Rec(START, t, 0, 0, 0))
     IN /\ nextTxNum' = t
        /\ status' = [status EXCEPT ![t] = "active"]
        /\ Install(S)
  /\ UNCHANGED <<up, crashes, pc, warg, woken, undo, ops, locks, locktbl,
                 txPins, txBuffers, preVal, lastSet, expect, released>>
  /\ ret' = NoRet
  /\ UNCHANGED auxvars

\* BufferList.pin once BufferMgr.pin has returned slot i
Pinned(t, b, i) ==
  /\ txPins' = [txPins EXCEPT ![t][b] = @ + 1]
  /\ txBuffers' = [txBuffers EXCEPT ![t][b] = i]

Suspend(t, where, b) ==
  /\ pc' = [pc EXCEPT ![t] = where]
  /\ warg' = [warg EXCEPT ![t] = b]
  /\ woken' = [woken EXCEPT ![t] = FALSE]

Resume(t) ==
  /\ pc' = [pc EXCEPT ![t] = "idle"]
  /\ warg' = [warg EXCEPT ![t] = 0]

\* Transaction.pin: BufferMgr.pin returns a slot, or the thread waits
tx_pin(t, b) ==
  /\ Call(t)
  /\ b < fsize
  /\ txPins[t][b] < MaxPins
  /\ LET p == BasicBufferMgr_pin(Store, b)
     IN IF p.slot # 0
        THEN /\ Install(p.S)
             /\ Pinned(t, b, p.slot)
             /\ UNCHANGED <<pc, warg, woken>>
        ELSE /\ Suspend(t, "pinwait", b)
             /\ UNCHANGED <<bufs, avail, disk, fsize, logDisk, logPage,
                            appended, wal, txPins, txBuffers>>
  /\ UNCHANGED <<up, crashes, begun, nextTxNum, status, undo, locks, locktbl,
                 preVal, lastSet, expect, released>>
  /\ ret' = NoRet
  /\ UNCHANGED auxvars

\* BufferMgr.pin after a notification: pin again; without a slot, wait again
\* or, when the time limit has passed, raise BufferAbortException
pin_wake(t) ==
  /\ up /\ status[t] = "active" /\ pc[t] = "pinwait" /\ woken[t]
  /\ LET p == BasicBufferMgr_pin(Store, warg[t])
     IN IF p.slot # 0
        THEN /\ Install(p.S)
             /\ Pinned(t, warg[t], p.slot)
             /\ Resume(t)
             /\ woken' = [woken EXCEPT ![t] = FALSE]
        ELSE /\ \E too_long \in BOOLEAN :
                  IF too_long THEN Resume(t) ELSE UNCHANGED <<pc, warg>>
             /\ woken' = [woken EXCEPT ![t] = FALSE]
             /\ UNCHANGED <<bufs, avail, disk, fsize, logDisk, logPage,
                            appended, wal, txPins, txBuffers>>
  /\ UNCHANGED <<up, crashes, begun, nextTxNum, status, undo, ops, locks, locktbl,
                 preVal, lastSet, expect, released>>
  /\ ret' = NoRet
  /\ UNCHANGED auxvars

\* variant: unpin gives up the lock on the block with its last pin
tx_unpin_unlock(t, b) ==
  /\ Call(t)
  /\ txPins[t][b] > 0
  /\ LET S == BufferMgr_unpin(Store, txBuffers[t][b])
     IN /\ Install(S)
        /\ woken' = S.woken
  /\ txPins' = [txPins EXCEPT ![t][b] = @ - 1]
  /\ txBuffers' = [txBuffers EXCEPT
                     ![t][b] = IF txPins[t][b] = 1 THEN 0 ELSE @]
  /\ IF txPins[t][b] = 1 /\ locks[t][b] # "N"
     THEN /\ locks' = [locks EXCEPT ![t][b] = "N"]
          /\ locktbl' = [locktbl EXCEPT
                           ![t] = PageLockTable_unlock(@, b)]
     ELSE UNCHANGED <<locks, locktbl>>
  /\ UNCHANGED <<up, crashes, begun, nextTxNum, status, pc, warg, undo,
                 preVal, lastSet, expect, released>>
  /\ ret' = NoRet
  /\ UNCHANGED auxvars

\* Transaction.unpin
tx_unpin(t, b) ==
  /\ Call(t)
  /\ txPins[t][b] > 0
  /\ LET S == BufferMgr_unpin(Store, txBuffers[t][b])
     IN /\ Install(S)
        /\ woken' = S.woken
  /\ txPins' = [txPins EXCEPT ![t][b] = @ - 1]
  /\ txBuffers' = [txBuffers EXCEPT
                     ![t][b] = IF txPins[t][b] = 1 THEN 0 ELSE @]
  /\ UNCHANGED <<up, crashes, begun, nextTxNum, status, pc, warg, undo,
                 locks, locktbl, preVal, lastSet, expect, released>>
  /\ ret' = NoRet
  /\ UNCHANGED auxvars

\* Transaction.get_int / get_string of a block the transaction has pinned:
\* slock, then read the buffer
GetValue(t, b, o) == bufs[txBuffers[t][b]].contents[o]

tx_get(t, b, o) ==
  /\ Call(t)
  /\ txBuffers[t][b] # 0
  /\ SLockFree(LockMgr(t), b)
  /\ SetLockMgr(t, PageLockMgr_slock(LockMgr(t), b))
  /\ ret' = [tx |-> t, blk |-> b, off |-> o, val |-> GetValue(t, b, o)]
  /\ UNCHANGED auxvars
  /\ UNCHANGED <<up, crashes, begun, nextTxNum, disk, fsize, bufs, avail, logDisk,
                 logPage, status, pc, warg, woken, undo, txPins,
                 txBuffers, appended, wal, preVal, lastSet, expect, released>>

\* the schema of the data file: the locations of block 0 hold integers,
\* those of the blocks appended later hold strings
FieldKind(b) == IF b = 0 THEN SETINT ELSE SETSTRING

\* RecoveryMgr.set_int / set_string: log the old value
RecoveryMgr_set(S, t, i, b, o, kind) ==
  LogMgr_append(S, Rec(kind, t, b, o, S.bufs[i].contents[o]))

\* Transaction.set_int / set_string on a pinned block
tx_set(t, b, o, v, kind) ==
  /\ Call(t)
  /\ txBuffers[t][b] # 0
  /\ XLockFree(LockMgr(t), b)
  /\ SetLockMgr(t, PageLockMgr_xlock(LockMgr(t), b))
  /\ LET i == txBuffers[t][b]
         S1 == RecoveryMgr_set(Store, t, i, b, o, kind)
         S2 == BufferSlot_set(S1, i, o, v, t, current_lsn(S1))
     IN /\ Install(S2)
        /\ preVal' = [preVal EXCEPT ![t][b][o] =
                        IF @ = NoVal THEN bufs[i].contents[o] ELSE @]
  /\ lastSet' = [lastSet EXCEPT ![t][b][o] = v]
  /\ UNCHANGED <<up, crashes, begun, nextTxNum, status, pc, warg, woken, undo,
                 txPins, txBuffers, expect, released>>
  /\ ret' = NoRet
  /\ UNCHANGED auxvars

\* Transaction.size: slock on the end-of-file sentinel
tx_size(t) ==
  /\ Call(t)
  /\ SLockFree(LockMgr(t), END_OF_FILE)
  /\ locks[t][END_OF_FILE] = "N"
  /\ SetLockMgr(t, PageLockMgr_slock(LockMgr(t), END_OF_FILE))
  /\ UNCHANGED <<up, crashes, begun, nextTxNum, disk, fsize, bufs, avail, logDisk,
                 logPage, status, pc, warg, woken, undo, txPins,
                 txBuffers, appended, wal, preVal, lastSet, expect, released>>
  /\ ret' = NoRet
  /\ UNCHANGED auxvars

\* BufferList.pin_new followed by Transaction.unpin of the new block
\* variant: the new block stays pinned (no self.unpin(blk) after pin_new)
pin_new_keep(t, p) ==
  /\ Install(p.S)
  /\ woken' = [p.S.woken EXCEPT ![t] = FALSE]

\* Transaction.append after the lock: pin_new, then unpin of the new block
pin_new_unpin(t, p) ==
  LET S == BufferMgr_unpin(p.S, p.slot)
  IN /\ Install(S)
     /\ woken' = [S.woken EXCEPT ![t] = FALSE]

\* Transaction.append: xlock on the sentinel, pin_new, unpin
tx_append(t) ==
  /\ Call(t)
  /\ fsize < MaxBlocks
  /\ XLockFree(LockMgr(t), END_OF_FILE)
  /\ SetLockMgr(t, PageLockMgr_xlock(LockMgr(t), END_OF_FILE))
  /\ LET p == BasicBufferMgr_pin_new(Store)
     IN IF p.slot # 0
        THEN /\ pin_new_unpin(t, p)
             /\ UNCHANGED <<pc, warg>>
        ELSE /\ Suspend(t, "newwait", 0)
             /\ UNCHANGED <<bufs, avail, disk, fsize, logDisk, logPage,
                            appended, wal>>
  /\ UNCHANGED <<up, crashes, begun, nextTxNum, status, undo, txPins,
                 txBuffers, preVal, lastSet, expect, released>>
  /\ ret' = NoRet
  /\ UNCHANGED auxvars

\* BufferMgr.pin_new after a notification or after its timed wait
pin_new_wake(t) ==
  /\ up /\ status[t] = "active" /\ pc[t] = "newwait"
  /\ fsize < MaxBlocks \/ choose_unpinned_buffer(Store) = 0
  /\ LET p == BasicBufferMgr_pin_new(Store)
     IN IF p.slot # 0
        THEN /\ pin_new_unpin(t, p)
             /\ Resume(t)
        ELSE /\ \E too_long \in BOOLEAN :
                  IF too_long THEN Resume(t) ELSE UNCHANGED <<pc, warg>>
             /\ woken' = [woken EXCEPT ![t] = FALSE]
             /\ UNCHANGED <<bufs, avail, disk, fsize, logDisk, logPage,
                            appended, wal>>
  /\ UNCHANGED <<up, crashes, begun, nextTxNum, status, undo, ops, locks, locktbl,
                 txPins, txBuffers, preVal, lastSet, expect, released>>
  /\ ret' = NoRet
  /\ UNCHANGED auxvars

\* what commit and rollback do after the recovery step:
\* PageLockMgr.release, BufferList.unpin_all
Finish(t, S, how) ==
  LET S1 == unpin_all(S, txPins[t], txBuffers[t])
  IN /\ Install(S1)
     /\ woken' = [S1.woken EXCEPT ![t] = FALSE]
     /\ SetLockMgr(t, PageLockMgr_release(LockMgr(t)))
     /\ txPins' = [txPins EXCEPT ![t] = [b \in Blocks |-> 0]]
     /\ txBuffers' = [txBuffers EXCEPT ![t] = [b \in Blocks |-> 0]]
     /\ status' = [status EXCEPT ![t] = how]
     /\ released' = [released EXCEPT ![t] =
                       [locks |-> Cardinality({k \in LockKeys :
                                                 locks[t][k] # "N"}),
                        pins |-> SumPins(txPins[t], Blocks)]]

\* the per-transaction history ends with the transaction
EndGhosts(t) ==
  /\ ops' = [ops EXCEPT ![t] = 0]
  /\ preVal' = [preVal EXCEPT ![t] = NoGhost]
  /\ lastSet' = [lastSet EXCEPT ![t] = NoGhost]

\* Transaction.commit
tx_commit(t) ==
  /\ Idle(t)
  /\ Finish(t, RecoveryMgr_commit(Store, t), "committed")
  /\ expect' = [b \in Blocks |-> [o \in Offsets |->
                  IF lastSet[t][b][o] # NoVal THEN lastSet[t][b][o]
                  ELSE expect[b][o]]]
  /\ EndGhosts(t)
  /\ UNCHANGED <<up, crashes, begun, nextTxNum, pc, warg, undo>>
  /\ ret' = NoRet
  /\ UNCHANGED auxvars

\* Transaction.rollback, first step: __do_rollback opens the log iterator
tx_rollback(t) ==
  /\ Idle(t)
  /\ LET S == LogMgr_iterator(Store)
     IN /\ Install(S)
        /\ undo' = [undo EXCEPT ![t] = do_rollback(LogIterator(S), t)]
  /\ pc' = [pc EXCEPT ![t] = "rollback"]
  /\ UNCHANGED <<up, crashes, begun, nextTxNum, status, warg, woken, ops, locks,
                 locktbl, txPins, txBuffers, preVal, lastSet, expect,
                 released>>
  /\ ret' = NoRet
  /\ UNCHANGED auxvars

Undone(t, p) ==
  LET S == undo_pinned(p.S, p.slot, Head(undo[t]), t)
  IN /\ Install(S)
     /\ woken' = [S.woken EXCEPT ![t] = FALSE]
     /\ undo' = [undo EXCEPT ![t] = Tail(@)]

\* __do_rollback: undo of the next record; BufferMgr.pin may have to wait
undo_step(t) ==
  /\ up /\ status[t] = "active" /\ pc[t] = "rollback"
  /\ undo[t] # <<>>
  /\ LET p == BasicBufferMgr_pin(Store, Head(undo[t]).blk)
     IN IF p.slot # 0
        THEN /\ Undone(t, p)
             /\ UNCHANGED <<pc, warg, status>>
        ELSE /\ Suspend(t, "undowait", Head(undo[t]).blk)
             /\ UNCHANGED <<bufs, avail, disk, fsize, logDisk, logPage,
                            appended, wal, undo, status>>
  /\ UNCHANGED <<up, crashes, begun, nextTxNum, ops, locks, locktbl, txPins,
                 txBuffers, preVal, lastSet, expect, released>>
  /\ ret' = NoRet
  /\ UNCHANGED auxvars

\* the waiting undo after a notification; BufferAbortException leaves
\* Transaction.rollback before release and unpin_all
undo_wake(t) ==
  /\ up /\ status[t] = "active" /\ pc[t] = "undowait" /\ woken[t]
  /\ LET p == BasicBufferMgr_pin(Store, warg[t])
     IN IF p.slot # 0
        THEN /\ Undone(t, p)
             /\ pc' = [pc EXCEPT ![t] = "rollback"]
             /\ warg' = [warg EXCEPT ![t] = 0]
             /\ UNCHANGED status
        ELSE /\ \E too_long \in BOOLEAN :
                  IF too_long
                  THEN /\ Resume(t)
                       /\ status' = [status EXCEPT ![t] = "failed"]
                       /\ undo' = [undo EXCEPT ![t] = <<>>]
                  ELSE UNCHANGED <<pc, warg, status, undo>>
             /\ woken' = [woken EXCEPT ![t] = FALSE]
             /\ UNCHANGED <<bufs, avail, disk, fsize, logDisk, logPage,
                            appended, wal>>
  /\ UNCHANGED <<up, crashes, begun, nextTxNum, ops, locks, locktbl, txPins,
                 txBuffers, preVal, lastSet, expect, released>>
  /\ ret' = NoRet
  /\ UNCHANGED auxvars

\* Transaction.rollback, last step: flush, COMMIT record, release, unpin_all
rollback_end(t) ==
  /\ up /\ status[t] = "active" /\ pc[t] = "rollback"
  /\ undo[t] = <<>>
  /\ Finish(t, RecoveryMgr_rollback_end(Store, t), "rolledback")
  /\ pc' = [pc EXCEPT ![t] = "idle"]
  /\ EndGhosts(t)
  /\ UNCHANGED <<up, crashes, begun, nextTxNum, warg, undo, expect>>
  /\ ret' = NoRet
  /\ UNCHANGED auxvars

\* ------------------------------------------------------- crash and restart
\* the process dies: the pool, the log page and every transaction object are
\* lost, the files stay
Crash ==
  /\ up
  /\ crashes < MaxCrashes
  /\ up' = FALSE
  /\ crashes' = crashes + 1
  /\ bufs' = [i \in Slots |-> EmptySlot]
  /\ avail' = NumBuffs
  /\ logPage' = logDisk[Len(logDisk)]
  /\ appended' = logDisk
  /\ pc' = [t \in Tx |-> "idle"]
  /\ warg' = [t \in Tx |-> 0]
  /\ woken' = [t \in Tx |-> FALSE]
  /\ undo' = [t \in Tx |-> <<>>]
  /\ locks' = [t \in Tx |-> NoLocks]
  /\ locktbl' = [t \in Tx |-> EmptyTbl]
  /\ txPins' = [t \in Tx |-> [b \in Blocks |-> 0]]
  /\ txBuffers' = [t \in Tx |-> [b \in Blocks |-> 0]]
  /\ ops' = [t \in Tx |-> 0]
  /\ lastSet' = [t \in Tx |-> NoGhost]
  /\ released' = [t \in Tx |-> [locks |-> 0, pins |-> 0]]
  /\ UNCHANGED <<begun, nextTxNum, disk, fsize, logDisk, status, wal, preVal,
                 expect>>
  /\ ret' = NoRet
  /\ UNCHANGED auxvars

\* SimpleDB.init on an existing database: transaction 1 is created,
\* recovers and commits (the catalog it opens in between is not modelled)
SimpleDB_init_tx(S) ==
  flush_all(LogMgr_append(S, Rec(START, 1, 0, 0, 0)), 1)

SimpleDB_init(S) ==
  RecoveryMgr_commit(RecoveryMgr_recover(SimpleDB_init_tx(S), 1), 1)

Restart ==
  /\ ~up
  /\ up' = TRUE
  /\ nextTxNum' = 1
  /\ Install(SimpleDB_init(Store))
  /\ status' = [t \in Tx |-> IF t = 1 THEN "committed" ELSE "none"]
  /\ preVal' = [t \in Tx |-> NoGhost]
  /\ UNCHANGED <<crashes, begun, pc, warg, woken, undo, ops, locks, locktbl,
                 txPins, txBuffers, lastSet, expect, released>>
  /\ ret' = NoRet
  /\ UNCHANGED auxvars

\* ------------------------------------------------------------ specification
\* SimpleDB.init on a new database: transaction 1 is created and commits
NoLogPage == [contents |-> <<>>, currentpos |-> 0, ptrs |-> <<>>,
              written |-> <<>>, appends |-> 0, last |-> 0,
              raised |-> "none"]

\* no file of records, no index
NoFile == [blocks |-> <<>>, currentblknum |-> 0, currentslot |-> -1,
           calls |-> 0, call |-> "", found |-> FALSE]

NoTree == [leaf |-> <<>>, dir |-> <<>>, calls |-> 0]

Threads == 1..NumThreads
FmBlks == 0..(InitFmBlocks + MaxFmAppends - 1)
FmVals == 1..MaxFmVal
FmSynced == {"read", "write", "size", "append"}
NoFmCall == [op |-> "none", blk |-> NoBlock, val |-> 0, tmp |-> 0,
             todo |-> <<>>]

\* FileMgr.__init__ and one open file of InitFmBlocks blocks of zeros, its
\* position at the start; the lock of every synchronized method free
NoFileMgr ==
  [file |-> [i \in 1..InitFmBlocks |-> 0], pos |-> 0,
   mlock |-> [m \in FmSynced |-> 0],
   th |-> [t \in Threads |-> NoFmCall],
   calls |-> [t \in Threads |-> 0],
   appends |-> 0, blks |-> <<>>]

PoolSlots == 1..NumPoolSlots
PoolBlks == 0..(MaxPoolBlocks - 1)
Synced == {"pin", "pin_new", "unpin"}
NoFrame == [op |-> "none", blk |-> NoBlock, slot |-> 0, tmp |-> 0,
            todo |-> <<>>, result |-> 0]

\* BasicBufferMgr.__init__: every slot without block and unpinned; the lock
\* of every synchronized method and BufferMgr._cv free
NoPool ==
  [slots |-> [i \in PoolSlots |-> [blk |-> NoBlock, pins |-> 0]],
   avail |-> NumPoolSlots, size |-> InitPoolBlocks, cv |-> 0,
   mlock |-> [m \in Synced |-> 0],
   th |-> [t \in Threads |-> NoFrame],
   held |-> [t \in Threads |-> [i \in PoolSlots |-> 0]],
   calls |-> [t \in Threads |-> 0]]
LockBlks == 0..(NumLockBlocks - 1)

\* PageLockTable.__init__ and a PageLockMgr.__init__ per thread: no lock,
\* the condition's lock free, no thread inside the table
NoTable ==
  [locks |-> [b \in LockBlks |-> 0], owner |-> 0, depth |-> 0,
   pc |-> [t \in Threads |-> "idle"], todo |-> [t \in Threads |-> <<>>],
   saved |-> [t \in Threads |-> 0], waits |-> [t \in Threads |-> 0],
   notified |-> [t \in Threads |-> FALSE],
   held |-> [t \in Threads |-> [b \in LockBlks |-> "N"]],
   result |-> [t \in Threads |-> "none"],
   calls |-> [t \in Threads |-> 0]]

NoCall == [op |-> "none", val |-> <<>>, outcome |-> "none"]
NoPage == [contents |-> <<>>, currentslot |-> -1, calls |-> 0, call |-> NoCall]

InitPool ==
  /\ up = TRUE
  /\ crashes = 0
  /\ begun = 0
  /\ nextTxNum = 1
  /\ disk = [b \in Blocks |-> ZeroPage]
  /\ fsize = InitBlocks
  /\ bufs = [i \in Slots |-> EmptySlot]
  /\ avail = NumBuffs
  /\ status = [t \in Tx |-> IF t = 1 THEN "committed" ELSE "none"]
  /\ pc = [t \in Tx |-> "idle"]
  /\ warg = [t \in Tx |-> 0]
  /\ woken = [t \in Tx |-> FALSE]
  /\ undo = [t \in Tx |-> <<>>]
  /\ ops = [t \in Tx |-> 0]
  /\ locks = [t \in Tx |-> NoLocks]
  /\ locktbl = [t \in Tx |-> EmptyTbl]
  /\ txPins = [t \in Tx |-> [b \in Blocks |-> 0]]
  /\ txBuffers = [t \in Tx |-> [b \in Blocks |-> 0]]
  /\ wal = "none"
  /\ preVal = [t \in Tx |-> NoGhost]
  /\ lastSet = [t \in Tx |-> NoGhost]
  /\ expect = NoGhost
  /\ released = [t \in Tx |-> [locks |-> 0, pins |-> 0]]
  /\ ret = NoRet

InitMain ==
  /\ InitPool
  /\ logDisk = << <<Rec(START, 1, 0, 0, 0), Rec(COMMIT, 1, 0, 0, 0)>> >>
  /\ logPage = <<Rec(START, 1, 0, 0, 0), Rec(COMMIT, 1, 0, 0, 0)>>
  /\ appended = << <<Rec(START, 1, 0, 0, 0), Rec(COMMIT, 1, 0, 0, 0)>> >>

Init ==
  /\ InitMain
  /\ rpage = NoPage
  /\ lpage = NoLogPage
  /\ rfile = NoFile
  /\ bt = NoTree
  /\ ltab = NoTable
  /\ pool = NoPool
  /\ fmgr = NoFileMgr

Next ==
  \/ Begin
  \/ \E t \in Tx, b \in Blocks : tx_pin(t, b)
  \/ \E t \in Tx : pin_wake(t)
  \/ \E t \in Tx, b \in Blocks : tx_unpin(t, b)
  \/ \E t \in Tx, b \in Blocks, o \in Offsets : tx_get(t, b, o)
  \/ \E t \in Tx, b \in Blocks, o \in Offsets, v \in Val :
        tx_set(t, b, o, v, FieldKind(b))
  \/ \E t \in Tx : tx_size(t)
  \/ \E t \in Tx : tx_append(t)
  \/ \E t \in Tx : pin_new_wake(t)
  \/ \E t \in Tx : tx_commit(t)
  \/ \E t \in Tx : tx_rollback(t)
  \/ \E t \in Tx : undo_step(t)
  \/ \E t \in Tx : undo_wake(t)
  \/ \E t \in Tx : rollback_end(t)
  \/ Crash
  \/ Restart

Spec == Init /\ [][Next]_vars
\* ------------------------------------------- BufferMgr, statement by statement
\* The steps of BufferMgr.pin, pin_new and unpin between which other threads
\* run.  A thread holds the condition BufferMgr._cv from its acquire to its
\* wait or release: pc "pin_checked" / "new_checked" is a thread that holds
\* _cv after a pin that returned None and has not yet called wait.
\* variant: the pin is tried before _cv is acquired
CvHeld_never(t) == FALSE

CvHeld(t) == pc[t] \in {"pin_checked", "new_checked"}

CvFree == \A t \in Tx : ~CvHeld(t)

\* the variables no step of the buffer manager changes
NotPool == <<up, crashes, begun, nextTxNum, status, undo, locks, locktbl,
             preVal, lastSet, expect, released, ret, auxvars>>

StoreVars == <<bufs, avail, disk, fsize, logDisk, logPage, appended, wal>>

\* BufferList.pin, BufferMgr.pin: acquire _cv and pin; with a slot, release
\* and return it
BufferMgr_pin(t, b) ==
  /\ Call(t)
  /\ CvFree
  /\ b < fsize
  /\ txPins[t][b] < MaxPins
  /\ LET p == BasicBufferMgr_pin(Store, b)
     IN IF p.slot # 0
        THEN /\ Install(p.S)
             /\ Pinned(t, b, p.slot)
             /\ UNCHANGED <<pc, warg>>
        ELSE /\ pc' = [pc EXCEPT ![t] = "pin_checked"]
             /\ warg' = [warg EXCEPT ![t] = b]
             /\ UNCHANGED <<StoreVars, txPins, txBuffers>>
  /\ UNCHANGED <<woken, NotPool>>

\* BufferMgr.pin: self._cv.wait() gives up _cv and waits for a notification
BufferMgr_pin_wait(t) ==
  /\ Live(t) /\ pc[t] = "pin_checked"
  /\ pc' = [pc EXCEPT ![t] = "pinwait"]
  /\ woken' = [woken EXCEPT ![t] = FALSE]
  /\ UNCHANGED <<StoreVars, warg, ops, txPins, txBuffers, NotPool>>

\* BufferMgr.pin: the wait returns after a notification, holding _cv again;
\* pin again, then the loop test
BufferMgr_pin_retry(t) ==
  /\ Live(t) /\ pc[t] = "pinwait" /\ woken[t]
  /\ CvFree
  /\ woken' = [woken EXCEPT ![t] = FALSE]
  /\ LET p == BasicBufferMgr_pin(Store, warg[t])
     IN IF p.slot # 0
        THEN /\ Install(p.S)
             /\ Pinned(t, warg[t], p.slot)
             /\ Resume(t)
        ELSE /\ \E too_long \in BOOLEAN :
                  IF too_long THEN Resume(t)
                  ELSE /\ pc' = [pc EXCEPT ![t] = "pin_checked"]
                       /\ UNCHANGED warg
             /\ UNCHANGED <<StoreVars, txPins, txBuffers>>
  /\ UNCHANGED <<ops, NotPool>>

InPin(t) == pc[t] \in {"pin_checked", "pinwait"}

InPinNew(t) == pc[t] \in {"new_checked", "newwait"}

\* BufferList.pin_new, BufferMgr.pin_new; the call is made while the file,
\* with the blocks of the calls still waiting, is below its bound
BufferMgr_pin_new(t) ==
  /\ Call(t)
  /\ CvFree
  /\ fsize + Cardinality({x \in Tx : InPinNew(x)}) < MaxBlocks
  /\ LET p == BasicBufferMgr_pin_new(Store)
     IN IF p.slot # 0
        THEN /\ Install(p.S)
             /\ Pinned(t, fsize, p.slot)
             /\ UNCHANGED <<pc, warg>>
        ELSE /\ pc' = [pc EXCEPT ![t] = "new_checked"]
             /\ warg' = [warg EXCEPT ![t] = 0]
             /\ UNCHANGED <<StoreVars, txPins, txBuffers>>
  /\ UNCHANGED <<woken, NotPool>>

\* BufferMgr.pin_new: self._cv.wait(MAX_TIME // 1000)
BufferMgr_pin_new_wait(t) ==
  /\ Live(t) /\ pc[t] = "new_checked"
  /\ pc' = [pc EXCEPT ![t] = "newwait"]
  /\ woken' = [woken EXCEPT ![t] = FALSE]
  /\ UNCHANGED <<StoreVars, warg, ops, txPins, txBuffers, NotPool>>

\* BufferMgr.pin_new: the wait returns after a notification or after its 10 s;
\* after the full 10 s the time limit has passed
BufferMgr_pin_new_retry(t) ==
  /\ Live(t) /\ pc[t] = "newwait"
  /\ CvFree
  /\ woken' = [woken EXCEPT ![t] = FALSE]
  /\ LET p == BasicBufferMgr_pin_new(Store)
     IN IF p.slot # 0
        THEN /\ Install(p.S)
             /\ Pinned(t, fsize, p.slot)
             /\ Resume(t)
        ELSE /\ \E too_long \in (IF woken[t] THEN BOOLEAN ELSE {TRUE}) :
                  IF too_long THEN Resume(t)
                  ELSE /\ pc' = [pc EXCEPT ![t] = "new_checked"]
                       /\ UNCHANGED warg
             /\ UNCHANGED <<StoreVars, txPins, txBuffers>>
  /\ UNCHANGED <<ops, NotPool>>

\* BufferList.unpin, BufferMgr.unpin: self._buffer_mgr.unpin(buff), without _cv
BufferMgr_unpin_basic(t, b) ==
  /\ Call(t)
  /\ txPins[t][b] > 0
  /\ Install(BasicBufferMgr_unpin(Store, txBuffers[t][b]))
  /\ txPins' = [txPins EXCEPT ![t][b] = @ - 1]
  /\ txBuffers' = [txBuffers EXCEPT
                     ![t][b] = IF txPins[t][b] = 1 THEN 0 ELSE @]
  /\ pc' = [pc EXCEPT ![t] = "unpin_test"]
  /\ warg' = [warg EXCEPT ![t] = txBuffers[t][b]]
  /\ UNCHANGED <<woken, NotPool>>

\* BufferMgr.unpin: if not buff.is_pinned()
BufferMgr_unpin_test(t) ==
  /\ Live(t) /\ pc[t] = "unpin_test"
  /\ IF bufs[warg[t]].pins > 0
     THEN Resume(t)
     ELSE /\ pc' = [pc EXCEPT ![t] = "unpin_notify"]
          /\ UNCHANGED warg
  /\ UNCHANGED <<StoreVars, woken, ops, txPins, txBuffers, NotPool>>

\* BufferMgr.unpin: acquire _cv, notify_all, release
BufferMgr_unpin_notify(t) ==
  /\ Live(t) /\ pc[t] = "unpin_notify"
  /\ CvFree
  /\ woken' = [x \in Tx |-> woken[x] \/ pc[x] \in {"pinwait", "newwait"}]
  /\ Resume(t)
  /\ UNCHANGED <<StoreVars, ops, txPins, txBuffers, NotPool>>

PoolNext ==
  \/ Begin
  \/ \E t \in Tx, b \in Blocks : BufferMgr_pin(t, b)
  \/ \E t \in Tx : BufferMgr_pin_wait(t)
  \/ \E t \in Tx : BufferMgr_pin_retry(t)
  \/ \E t \in Tx : BufferMgr_pin_new(t)
  \/ \E t \in Tx : BufferMgr_pin_new_wait(t)
  \/ \E t \in Tx : BufferMgr_pin_new_retry(t)
  \/ \E t \in Tx, b \in Blocks : BufferMgr_unpin_basic(t, b)
  \/ \E t \in Tx : BufferMgr_unpin_test(t)
  \/ \E t \in Tx : BufferMgr_unpin_notify(t)

\* a thread inside a call goes on running; a client need not call again
PoolFair ==
  \A t \in Tx :
     /\ WF_vars(BufferMgr_pin_wait(t))
     /\ WF_vars(BufferMgr_pin_retry(t))
     /\ WF_vars(BufferMgr_pin_new_wait(t))
     /\ WF_vars(BufferMgr_pin_new_retry(t))
     /\ WF_vars(BufferMgr_unpin_test(t))
     /\ WF_vars(BufferMgr_unpin_notify(t))

PoolSpec == Init /\ [][PoolNext]_vars /\ PoolFair

\* ------------------------------------------------------- the remote adapter
\* RemoteStatementImpl and RemoteResultSetImpl run the calls of a scan on the
\* connection's transaction inside  try ... except RuntimeError as e:
\* self._rconn.rollback(); raise e.

\* the base class of each exception class the engine raises
ExceptionBase(e) ==
  CASE e = "LockAbortException" -> "Exception"
    [] e = "BufferAbortException" -> "Exception"
    [] e = "RuntimeError" -> "Exception"
    [] e = "Exception" -> "BaseException"
    [] OTHER -> "object"

RECURSIVE isinstance(_, _)
isinstance(e, c) ==
  IF e = c THEN TRUE
  ELSE IF e = "object" THEN FALSE
  ELSE isinstance(ExceptionBase(e), c)

\* except RuntimeError as e
Caught(e) == isinstance(e, "RuntimeError")

\* the except clause when the exception e reaches it: a caught exception
\* starts RemoteConnectionImpl.rollback, any other leaves the call as it is
RemoteHandler(t, e) ==
  IF Caught(e)
  THEN LET S == LogMgr_iterator(Store)
       IN /\ Install(S)
          /\ undo' = [undo EXCEPT ![t] = do_rollback(LogIterator(S), t)]
          /\ pc' = [pc EXCEPT ![t] = "rollback"]
          /\ warg' = [warg EXCEPT ![t] = 0]
  ELSE /\ Resume(t)
       /\ UNCHANGED <<StoreVars, undo>>

\* the pin of a scan, waiting inside an adapter call, after a notification
remote_wake(t) ==
  /\ up /\ status[t] = "active" /\ pc[t] = "pinwait" /\ woken[t]
  /\ woken' = [woken EXCEPT ![t] = FALSE]
  /\ LET p == BasicBufferMgr_pin(Store, warg[t])
     IN IF p.slot # 0
        THEN /\ Install(p.S)
             /\ Pinned(t, warg[t], p.slot)
             /\ Resume(t)
             /\ UNCHANGED undo
        ELSE /\ UNCHANGED <<txPins, txBuffers>>
             /\ \E too_long \in BOOLEAN :
                  IF too_long
                  THEN RemoteHandler(t, "BufferAbortException")
                  ELSE UNCHANGED <<pc, warg, StoreVars, undo>>
  /\ UNCHANGED <<up, crashes, begun, nextTxNum, status, ops, locks, locktbl,
                 preVal, lastSet, expect, released>>
  /\ ret' = NoRet
  /\ UNCHANGED auxvars

\* an adapter call in which FileMgr.size fails with RuntimeError; it is the
\* transaction's last call and is not counted against the bound on calls
remote_io_error(t) ==
  /\ Idle(t)
  /\ RemoteHandler(t, "RuntimeError")
  /\ UNCHANGED <<up, crashes, begun, nextTxNum, status, woken, ops, locks,
                 locktbl,
                 txPins, txBuffers, preVal, lastSet, expect, released>>
  /\ ret' = NoRet
  /\ UNCHANGED auxvars

RemoteNext ==
  \/ Begin
  \/ \E t \in Tx, b \in Blocks : tx_pin(t, b)
  \/ \E t \in Tx : remote_wake(t)
  \/ \E t \in Tx, b \in Blocks : tx_unpin(t, b)
  \/ \E t \in Tx, b \in Blocks, o \in Offsets : tx_get(t, b, o)
  \/ \E t \in Tx, b \in Blocks, o \in Offsets, v \in Val :
        tx_set(t, b, o, v, FieldKind(b))
  \/ \E t \in Tx : tx_commit(t)
  \/ \E t \in Tx : remote_io_error(t)
  \/ \E t \in Tx : undo_step(t)
  \/ \E t \in Tx : undo_wake(t)
  \/ \E t \in Tx : rollback_end(t)

RemoteSpec == Init /\ [][RemoteNext]_vars

\* -------------------------------------------------------- a page of records
\* A page of BLOCK_SIZE bytes holding the records of a table with an integer
\* field and a string field, as RecordPage and MaxPage treat it.
Max(S) == CHOOSE x \in S : \A y \in S : x >= y

\* TableInfo.__init__: the fields' offsets and the record length
IntFieldOffset == 0
StrFieldOffset == IntFieldOffset + INT_SIZE
record_length == StrFieldOffset + str_size(StrFieldLen)

\* RecordPage._slotsize
slotsize == record_length + INT_SIZE

\* the strings a client writes: some number of characters
Strings == {[i \in 1..n |-> MaxChar] : n \in 0..MaxStrLen}

\* struct.pack("I", n) and struct.pack("i", n) of a value n >= 0: four
\* bytes, least significant first
pack_I(n) ==
  <<n % 256, (n \div 256) % 256, (n \div 65536) % 256,
    (n \div 16777216) % 256>>

\* struct.unpack_from("i", contents, offset)
Page_get_int(contents, offset) ==
  LET top == contents[offset + 4]
  IN contents[offset + 1] + 256 * contents[offset + 2]
     + 65536 * contents[offset + 3]
     + 16777216 * (IF top >= 128 THEN top - 256 ELSE top)

\* bytearray(val, "utf-32-be"): four bytes a character, most significant
\* first
RECURSIVE utf_32_be(_)
utf_32_be(val) ==
  IF val = <<>> THEN <<>>
  ELSE <<(Head(val) \div 16777216) % 256, (Head(val) \div 65536) % 256,
         (Head(val) \div 256) % 256, Head(val) % 256>>
       \o utf_32_be(Tail(val))

\* Python's  a[lo:hi] = data : the bounds are cut to the length of a and
\* the slice, whatever its length, is replaced by data
SliceAssign(a, lo, hi, data) ==
  LET l == Min({lo, Len(a)})
      h == Max({l, Min({hi, Len(a)})})
  IN SubSeq(a, 1, l) \o data \o SubSeq(a, h + 1, Len(a))

\* struct.pack_into("i", contents, offset, val), which fits
Page_set_int(contents, offset, val) ==
  [i \in 1..Len(contents) |->
     IF i > offset /\ i <= offset + INT_SIZE
     THEN pack_I(val)[i - offset] ELSE contents[i]]

MaxPage_set_string(contents, offset, val) ==
  LET string_byte_array == utf_32_be(val)
      size == Len(string_byte_array)
  IN SliceAssign(contents, offset, offset + INT_SIZE + size,
                 pack_I(size) \o string_byte_array)

RecordPage_currentpos(slot) == slot * slotsize

RecordPage_fieldpos(slot, offset) ==
  RecordPage_currentpos(slot) + INT_SIZE + offset

RecordPage_is_valid_slot(slot) ==
  RecordPage_currentpos(slot) + slotsize <= BLOCK_SIZE

\* __search_for(flag), after the first increment of the current slot
RECURSIVE RecordPage_search_for(_, _, _)
RecordPage_search_for(contents, slot, flag) ==
  IF ~RecordPage_is_valid_slot(slot) THEN [found |-> FALSE, slot |-> slot]
  ELSE IF Page_get_int(contents, RecordPage_currentpos(slot)) = flag
       THEN [found |-> TRUE, slot |-> slot]
       ELSE RecordPage_search_for(contents, slot + 1, flag)

PageCall(op, val) ==
  [op |-> op, val |-> val, outcome |-> "returned"]

NotPage == <<mainvars, lpage, rfile, bt, ltab, pool, fmgr>>

\* RecordPage.insert
RecordPage_insert ==
  /\ rpage.calls < MaxPageOps
  /\ LET s == RecordPage_search_for(rpage.contents, 0, EMPTY)
     IN rpage' = [contents |->
                   IF s.found
                   THEN Page_set_int(rpage.contents,
                                     RecordPage_currentpos(s.slot), INUSE)
                   ELSE rpage.contents,
                 currentslot |-> s.slot,
                 calls |-> rpage.calls + 1,
                 call |-> PageCall("insert", <<>>)]
  /\ UNCHANGED NotPage

\* RecordPage.move_to_id
RecordPage_move_to_id(id) ==
  /\ rpage.calls < MaxPageOps
  /\ RecordPage_is_valid_slot(id)
  /\ rpage' = [rpage EXCEPT !.currentslot = id,
                          !.calls = @ + 1,
                          !.call = PageCall("move_to_id", <<>>)]
  /\ UNCHANGED NotPage

\* RecordPage.set_string on the string field of the current record, down to
\* MaxPage.set_string
RecordPage_set_string(val) ==
  /\ rpage.calls < MaxPageOps
  /\ rpage.currentslot >= 0
  /\ RecordPage_is_valid_slot(rpage.currentslot)
  /\ rpage' = [contents |->
                MaxPage_set_string(rpage.contents,
                   RecordPage_fieldpos(rpage.currentslot, StrFieldOffset),
                   val),
              currentslot |-> rpage.currentslot,
              calls |-> rpage.calls + 1,
              call |-> PageCall("set_string", val)]
  /\ UNCHANGED NotPage

\* RecordFormatter.format leaves every flag EMPTY, every integer 0 and every
\* string empty: a page of zero bytes
PageInit ==
  /\ InitMain
  /\ rpage = [NoPage EXCEPT !.contents = [i \in 1..BLOCK_SIZE |-> 0]]
  /\ lpage = NoLogPage
  /\ rfile = NoFile
  /\ bt = NoTree
  /\ ltab = NoTable
  /\ pool = NoPool
  /\ fmgr = NoFileMgr

PageNext ==
  \/ RecordPage_insert
  \/ \E id \in 0..(BLOCK_SIZE \div slotsize) : RecordPage_move_to_id(id)
  \/ \E val \in Strings : RecordPage_set_string(val)

PageSpec == PageInit /\ [][PageNext]_vars

\* ------------------------------------------------------- the log on its own
\* LogMgr and LogIterator by themselves, on a new log file, with records of
\* chosen sizes.

\* the longest string value with which a SETSTRING record fits an empty block
FullVal ==
  (BLOCK_SIZE - INT_SIZE - RecSize(Rec(SETSTRING, 1, 0, 0, 0)))
     \div MAX_BYTES_PER_CHAR

\* the string value with which a SETSTRING record after a SETINT record fills
\* an empty block to its last byte
FitVal ==
  (BLOCK_SIZE - INT_SIZE - RecSize(Rec(SETINT, 1, 0, 0, 0))
     - RecSize(Rec(SETSTRING, 1, 0, 0, 0))) \div MAX_BYTES_PER_CHAR

LogRecs ==
  {Rec(START, 1, 0, 0, 0), Rec(SETINT, 1, 0, 0, 0)}
    \cup {Rec(SETSTRING, 1, 0, 0, v) : v \in {0, FitVal, FullVal}}

NotLog == <<up, crashes, begun, nextTxNum, disk, fsize, bufs, avail, status,
            pc, warg, woken, undo, ops, locks, locktbl, txPins, txBuffers,
            wal, preVal, lastSet, expect, released, ret, auxvars>>

\* LogMgr.append of a record that fits an empty block
log_append(rec) ==
  /\ Len(Flatten(appended)) < MaxAppends
  /\ RecSize(rec) <= BLOCK_SIZE - INT_SIZE
  /\ LET S == LogMgr_append(Store, rec)
     IN /\ logDisk' = S.logDisk
        /\ logPage' = S.logPage
        /\ appended' = S.appended
  /\ UNCHANGED NotLog

\* LogMgr.flush
log_flush(lsn) ==
  /\ lsn <= current_lsn(Store)
  /\ LET S == LogMgr_flush(Store, lsn)
     IN /\ logDisk' = S.logDisk
        /\ logPage' = S.logPage
        /\ appended' = S.appended
  /\ UNCHANGED NotLog

\* LogMgr.iterator
log_iterator ==
  /\ LET S == LogMgr_iterator(Store)
     IN /\ logDisk' = S.logDisk
        /\ logPage' = S.logPage
        /\ appended' = S.appended
  /\ UNCHANGED NotLog

\* LogMgr.__init__ on a new log file: one empty block
LogInit ==
  /\ InitPool
  /\ logDisk = << <<>> >>
  /\ logPage = <<>>
  /\ appended = << <<>> >>
  /\ rpage = NoPage
  /\ lpage = NoLogPage
  /\ rfile = NoFile
  /\ bt = NoTree
  /\ ltab = NoTable
  /\ pool = NoPool
  /\ fmgr = NoFileMgr

LogNext ==
  \/ \E rec \in LogRecs : log_append(rec)
  \/ \E lsn \in 0..MaxAppends : log_flush(lsn)
  \/ log_iterator

LogSpec == LogInit /\ [][LogNext]_vars

\* ------------------------------------------------ the log page, byte by byte
\* LogMgr writing the values of its records, their back-pointers and the
\* position of the last record into a page of BLOCK_SIZE bytes.

\* a value of a record: an integer or a string
IntVal(n) == [str |-> FALSE, n |-> n, s |-> <<>>]
StrVal(s) == [str |-> TRUE, n |-> 0, s |-> s]

LogMgr_size(val) == IF val.str THEN str_size(Len(val.s)) ELSE INT_SIZE

\* recsize of LogMgr.append
RECURSIVE LogMgr_recsize(_)
LogMgr_recsize(rec) ==
  IF rec = <<>> THEN INT_SIZE
  ELSE LogMgr_size(Head(rec)) + LogMgr_recsize(Tail(rec))

\* for obj in rec: __append_val(obj)
RECURSIVE LogMgr_append_vals(_, _)
LogMgr_append_vals(P, rec) ==
  IF rec = <<>> THEN P
  ELSE LET val == Head(rec)
           P1 == [P EXCEPT
                    !.contents =
                       IF val.str
                       THEN MaxPage_set_string(@, P.currentpos, val.s)
                       ELSE Page_set_int(@, P.currentpos, val.n),
                    !.currentpos = @ + LogMgr_size(val)]
       IN LogMgr_append_vals(P1, Tail(rec))

\* variant: the back-pointer is given the position of the record itself
finalize_record_self(P) ==
  [P EXCEPT !.contents = Page_set_int(Page_set_int(@, P.currentpos,
                                                   P.currentpos),
                                      LAST_POS, P.currentpos),
            !.currentpos = @ + INT_SIZE,
            !.ptrs = Append(@, P.currentpos)]

\* __finalize_record; ptrs is the history of the back-pointers' positions
finalize_record(P) ==
  LET last == Page_get_int(P.contents, LAST_POS)
      c1 == Page_set_int(P.contents, P.currentpos, last)
  IN [P EXCEPT !.contents = Page_set_int(c1, LAST_POS, P.currentpos),
               !.currentpos = @ + INT_SIZE,
               !.ptrs = Append(@, P.currentpos)]

\* __flush and __append_new_block: the page goes to the file, is cleared and
\* begins the next block
LogPage_new_block(P) ==
  [P EXCEPT !.written = Append(@, [contents |-> P.contents, ptrs |-> P.ptrs]),
            !.contents = Page_set_int([i \in 1..BLOCK_SIZE |-> 0],
                                      LAST_POS, 0),
            !.currentpos = INT_SIZE,
            !.ptrs = <<>>]

LogPage_append(P, rec) ==
  LET P1 == IF P.currentpos + LogMgr_recsize(rec) >= BLOCK_SIZE
            THEN LogPage_new_block(P)
            ELSE P
  IN finalize_record(LogMgr_append_vals(P1, rec))

\* the records appended: integers and strings of LogStrLen characters
LogByteRecs ==
  {<<IntVal(MaxLogInt)>>,
   <<IntVal(START), IntVal(MaxLogInt)>>,
   <<StrVal([i \in 1..LogStrLen |-> MaxChar])>>,
   <<IntVal(SETSTRING), StrVal([i \in 1..LogStrLen |-> MaxChar]),
     IntVal(MaxLogInt)>>}

NotLogPage == <<mainvars, rpage, rfile, bt, ltab, pool, fmgr>>

NotFile == <<mainvars, rpage, lpage, bt, ltab, pool, fmgr>>

\* LogMgr.append of a record that fits an empty block
log_append_bytes(rec) ==
  /\ lpage.appends < MaxAppends
  /\ LogMgr_recsize(rec) <= BLOCK_SIZE - INT_SIZE
  /\ lpage' = [LogPage_append(lpage, rec) EXCEPT
                 !.appends = @ + 1, !.last = LogMgr_recsize(rec),
                 !.raised = "none"]
  /\ UNCHANGED NotLogPage

\* LogMgr.append with its assertion on recsize; the struct.pack_into of
\* __finalize_record raises struct.error when the back-pointer does not lie
\* inside the page
LogMgr_append_raising(P, rec) ==
  IF ~(LogMgr_recsize(rec) <= BLOCK_SIZE)
  THEN [P EXCEPT !.raised = "AssertionError"]
  ELSE LET P1 == IF P.currentpos + LogMgr_recsize(rec) >= BLOCK_SIZE
                 THEN LogPage_new_block(P)
                 ELSE P
           P2 == LogMgr_append_vals(P1, rec)
       IN IF P2.currentpos + INT_SIZE > Len(P2.contents)
          THEN [P2 EXCEPT !.raised = "struct.error"]
          ELSE [finalize_record(P2) EXCEPT !.raised = "none"]

\* records of one string that with their back-pointer fill BLOCK_SIZE bytes,
\* and four bytes more
FullStrLen == (BLOCK_SIZE - 2 * INT_SIZE) \div MAX_BYTES_PER_CHAR

WideLogRecs ==
  {<<StrVal([i \in 1..FullStrLen |-> MaxChar])>>,
   <<StrVal([i \in 1..(FullStrLen + 1) |-> MaxChar])>>}

\* LogMgr.append of a record that does not fit an empty block
log_append_wide(rec) ==
  /\ lpage.appends < MaxAppends
  /\ LogMgr_recsize(rec) > BLOCK_SIZE - INT_SIZE
  /\ lpage' = [LogMgr_append_raising(lpage, rec) EXCEPT
                 !.appends = @ + 1, !.last = LogMgr_recsize(rec)]
  /\ UNCHANGED NotLogPage

\* LogMgr.__init__ on a new log file
LogPageInit ==
  /\ InitMain
  /\ rpage = NoPage
  /\ lpage = [NoLogPage EXCEPT !.contents = [i \in 1..BLOCK_SIZE |-> 0],
                               !.currentpos = INT_SIZE]
  /\ rfile = NoFile
  /\ bt = NoTree
  /\ ltab = NoTable
  /\ pool = NoPool
  /\ fmgr = NoFileMgr

LogPageNext ==
  \/ \E rec \in LogByteRecs : log_append_bytes(rec)
  \/ \E rec \in WideLogRecs : log_append_wide(rec)

LogPageSpec == LogPageInit /\ [][LogPageNext]_vars


\* --------------------------------------------------------- a file of records
\* A RecordFile over a table with an integer field and a string field of
\* WideStrLen characters, used by one transaction; the blocks are kept as
\* the BLOCK_SIZE bytes the transaction reads and writes.
rf_record_length == INT_SIZE + str_size(WideStrLen)

\* RecordPage._slotsize of the file's pages
rf_slotsize == rf_record_length + INT_SIZE

\* the slots RecordFormatter.format allocates in a block
rf_slots == 0..((BLOCK_SIZE \div rf_slotsize) - 1)

\* RecordFormatter.format on a new page: every flag EMPTY, every integer 0,
\* every string of length 0
RecordFormatter_format == [i \in 1..BLOCK_SIZE |-> 0]

rp_currentpos(slot) == slot * rf_slotsize

rp_fieldpos(slot, offset) == rp_currentpos(slot) + INT_SIZE + offset

rp_is_valid_slot(slot) == rp_currentpos(slot) + rf_slotsize <= BLOCK_SIZE

\* RecordPage.__search_for(flag), after the first increment of the slot
RECURSIVE rp_search_for(_, _, _)
rp_search_for(contents, slot, flag) ==
  IF ~rp_is_valid_slot(slot) THEN [found |-> FALSE, slot |-> slot]
  ELSE IF Page_get_int(contents, rp_currentpos(slot)) = flag
       THEN [found |-> TRUE, slot |-> slot]
       ELSE rp_search_for(contents, slot + 1, flag)

\* RecordPage.next: the page is only read
rp_next(contents, slot) == rp_search_for(contents, slot + 1, INUSE)

\* variant: the search for an EMPTY slot goes on from the current slot
rp_insert_from_current(contents, slot) ==
  LET s == rp_search_for(contents, slot + 1, EMPTY)
  IN [found |-> s.found, slot |-> s.slot,
      contents |-> IF s.found
                   THEN Page_set_int(contents, rp_currentpos(s.slot), INUSE)
                   ELSE contents]

\* RecordPage.insert: _currentslot = -1, __search_for(EMPTY), the flag
rp_insert(contents, slot) ==
  LET s == rp_search_for(contents, 0, EMPTY)
  IN [found |-> s.found, slot |-> s.slot,
      contents |-> IF s.found
                   THEN Page_set_int(contents, rp_currentpos(s.slot), INUSE)
                   ELSE contents]

\* RecordPage.delete
rp_delete(contents, slot) ==
  Page_set_int(contents, rp_currentpos(slot), EMPTY)

\* RecordPage.get_int and set_int on the integer field
rp_get_int(contents, slot) ==
  Page_get_int(contents, rp_fieldpos(slot, IntFieldOffset))

rp_set_int(contents, slot, val) ==
  Page_set_int(contents, rp_fieldpos(slot, IntFieldOffset), val)

\* the page of the current block
rf_rp(rf) == rf.blocks[rf.currentblknum + 1]

\* RecordFile.__move_to: a new RecordPage, before its first slot
RecordFile_move_to(rf, b) ==
  [rf EXCEPT !.currentblknum = b, !.currentslot = -1]

\* variant: every block is taken for the last one
RecordFile_at_last_block_always(rf) == TRUE

\* RecordFile.__at_last_block
RecordFile_at_last_block(rf) == rf.currentblknum = Len(rf.blocks) - 1

\* RecordFile.__append_block: Transaction.append with a RecordFormatter
RecordFile_append_block(rf) ==
  [rf EXCEPT !.blocks = Append(@, RecordFormatter_format)]

\* RecordFile.next
RECURSIVE RecordFile_next(_)
RecordFile_next(rf) ==
  LET s == rp_next(rf_rp(rf), rf.currentslot)
      rf1 == [rf EXCEPT !.currentslot = s.slot]
  IN IF s.found THEN [rf1 EXCEPT !.found = TRUE]
     ELSE IF RecordFile_at_last_block(rf1) THEN [rf1 EXCEPT !.found = FALSE]
     ELSE RecordFile_next(RecordFile_move_to(rf1, rf1.currentblknum + 1))

\* RecordFile.insert
RECURSIVE RecordFile_insert(_)
RecordFile_insert(rf) ==
  LET s == rp_insert(rf_rp(rf), rf.currentslot)
      rf1 == [rf EXCEPT !.currentslot = s.slot,
                        !.blocks[rf.currentblknum + 1] = s.contents]
  IN IF s.found THEN [rf1 EXCEPT !.found = TRUE]
     ELSE LET rf2 == IF RecordFile_at_last_block(rf1)
                     THEN RecordFile_append_block(rf1) ELSE rf1
          IN RecordFile_insert(RecordFile_move_to(rf2, rf2.currentblknum + 1))

\* the current record is a slot of the page
rf_on_record(rf) == rf.currentslot >= 0 /\ rp_is_valid_slot(rf.currentslot)

\* RecordFile.before_first
rf_before_first ==
  /\ rfile' = [RecordFile_move_to(rfile, 0) EXCEPT !.call = "before_first"]
  /\ UNCHANGED NotFile

\* RecordFile.next; every call past the last record moves the current slot
\* one further
rf_next ==
  /\ rfile.currentslot < MaxSlot
  /\ rfile' = [RecordFile_next(rfile) EXCEPT !.call = "next"]
  /\ UNCHANGED NotFile

\* RecordFile.insert, while the file may grow
rf_insert ==
  /\ Len(RecordFile_insert(rfile).blocks) <= MaxFileBlocks
  /\ rfile' = [RecordFile_insert(rfile) EXCEPT !.call = "insert"]
  /\ UNCHANGED NotFile

\* RecordFile.delete of the current record
rf_delete ==
  /\ rf_on_record(rfile)
  /\ rfile' = [rfile EXCEPT
                 !.blocks[rfile.currentblknum + 1] =
                    rp_delete(@, rfile.currentslot),
                 !.call = "delete"]
  /\ UNCHANGED NotFile

\* RecordFile.set_int on the integer field of the current record
rf_set_int(val) ==
  /\ rf_on_record(rfile)
  /\ rfile' = [rfile EXCEPT
                 !.blocks[rfile.currentblknum + 1] =
                    rp_set_int(@, rfile.currentslot, val),
                 !.call = "set_int"]
  /\ UNCHANGED NotFile

\* RecordFile.move_to_rid
rf_move_to_rid(blknum, id) ==
  /\ blknum < Len(rfile.blocks)
  /\ rfile' = [RecordFile_move_to(rfile, blknum) EXCEPT
                 !.currentslot = id, !.call = "move_to_rid"]
  /\ UNCHANGED NotFile

\* RecordFile.__init__ on a file that does not exist: __append_block, then
\* __move_to(0)
RecordFile_init ==
  RecordFile_move_to(RecordFile_append_block(NoFile), 0)

FileInit ==
  /\ InitMain
  /\ rpage = NoPage
  /\ lpage = NoLogPage
  /\ rfile = RecordFile_init
  /\ bt = NoTree
  /\ ltab = NoTable
  /\ pool = NoPool
  /\ fmgr = NoFileMgr

FileNext ==
  \/ rf_before_first
  \/ rf_next
  \/ rf_insert
  \/ rf_delete
  \/ \E val \in Val : rf_set_int(val)
  \/ \E blknum \in 0..(MaxFileBlocks - 1), id \in rf_slots :
        rf_move_to_rid(blknum, id)

FileSpec == FileInit /\ [][FileNext]_vars

\* ------------------------------------------------------------- the B-tree
\* A B-tree index on an integer field, used by one transaction.  The leaf
\* file and the directory file are kept as blocks of BLOCK_SIZE bytes, read
\* and written as BTreePage reads and writes them through the transaction.

\* struct.pack("i", n): four bytes, least significant first, two's
\* complement
pack_i(n) ==
  IF n >= 0 THEN pack_I(n)
  ELSE LET m == (n + 2147483647) + 1
       IN <<m % 256, (m \div 256) % 256, (m \div 65536) % 256,
            ((m \div 16777216) % 256) + 128>>

\* struct.pack_into("i", contents, offset, val)
pack_into_i(contents, offset, val) ==
  LET b == pack_i(val)
  IN [contents EXCEPT ![offset + 1] = b[1], ![offset + 2] = b[2],
                      ![offset + 3] = b[3], ![offset + 4] = b[4]]

\* TableInfo of the leaf records (block, id, dataval) and of the directory
\* records (block, dataval): the offsets of the fields, the record length
LeafTi == [slotsize |-> 3 * INT_SIZE, block |-> 0, id |-> INT_SIZE,
           dataval |-> 2 * INT_SIZE]

DirTi == [slotsize |-> 2 * INT_SIZE, block |-> 0, dataval |-> INT_SIZE]

\* the keys and the record identifiers a client inserts
Keys == 1..MaxKey

RIDs == {<<0, i>> : i \in 1..MaxRid}

\* the dataval of the first directory entry, below every key
MinDataVal == -2147483647

\* BTPageFormatter.format: the flag, no records, every field 0
BTPageFormatter_format(flag) ==
  pack_into_i([i \in 1..BLOCK_SIZE |-> 0], 0, flag)

BTreePage_slotpos(ti, slot) == INT_SIZE + INT_SIZE + slot * ti.slotsize

BTreePage_get_int(ti, c, slot, offset) ==
  Page_get_int(c, BTreePage_slotpos(ti, slot) + offset)

BTreePage_set_int(ti, c, slot, offset, val) ==
  pack_into_i(c, BTreePage_slotpos(ti, slot) + offset, val)

BTreePage_get_num_recs(c) == Page_get_int(c, INT_SIZE)

BTreePage_set_num_recs(c, n) == pack_into_i(c, INT_SIZE, n)

BTreePage_get_flag(c) == Page_get_int(c, 0)

BTreePage_set_flag(c, val) == pack_into_i(c, 0, val)

BTreePage_get_data_val(ti, c, slot) ==
  BTreePage_get_int(ti, c, slot, ti.dataval)

\* the fields of the record at slot From of page src from offset on, each
\* read by __get_val and written by __set_val at slot To of page c
RECURSIVE BTreePage_set_fields(_, _, _, _, _, _)
BTreePage_set_fields(ti, c, To, src, From, offset) ==
  IF offset >= ti.slotsize THEN c
  ELSE BTreePage_set_fields(ti,
         BTreePage_set_int(ti, c, To, offset,
                           BTreePage_get_int(ti, src, From, offset)),
         To, src, From, offset + INT_SIZE)

BTreePage_set_record(ti, c, To, src, From) ==
  BTreePage_set_fields(ti, c, To, src, From, 0)

\* BTreePage.__copy_record
BTreePage_copy_record(ti, c, From, To) ==
  BTreePage_set_record(ti, c, To, c, From)

\* the loop of __insert: the records from slot on move one slot up
RECURSIVE BTreePage_move_up(_, _, _, _)
BTreePage_move_up(ti, c, i, slot) ==
  IF i > slot
  THEN BTreePage_move_up(ti, BTreePage_copy_record(ti, c, i - 1, i),
                         i - 1, slot)
  ELSE c

\* BTreePage.__insert
BTreePage_insert(ti, c, slot) ==
  BTreePage_set_num_recs(
    BTreePage_move_up(ti, c, BTreePage_get_num_recs(c), slot),
    BTreePage_get_num_recs(c) + 1)

\* the loop of delete: the records after slot move one slot down
RECURSIVE BTreePage_move_down(_, _, _)
BTreePage_move_down(ti, c, i) ==
  IF i < BTreePage_get_num_recs(c)
  THEN BTreePage_move_down(ti, BTreePage_copy_record(ti, c, i, i - 1), i + 1)
  ELSE c

\* BTreePage.delete
BTreePage_delete(ti, c, slot) ==
  BTreePage_set_num_recs(BTreePage_move_down(ti, c, slot + 1),
                         BTreePage_get_num_recs(c) - 1)

\* BTreePage.__transfer_records
RECURSIVE BTreePage_transfer_records(_, _, _, _, _)
BTreePage_transfer_records(ti, c, slot, dest, destslot) ==
  IF slot < BTreePage_get_num_recs(c)
  THEN BTreePage_transfer_records(ti,
         BTreePage_delete(ti, c, slot), slot,
         BTreePage_set_record(ti, BTreePage_insert(ti, dest, destslot),
                              destslot, c, slot),
         destslot + 1)
  ELSE [c |-> c, dest |-> dest]

\* variant: true when the page has no room for one more record
BTreePage_is_full_no_room(ti, c) ==
  BTreePage_slotpos(ti, BTreePage_get_num_recs(c) + 1) >= BLOCK_SIZE

\* BTreePage.is_full
BTreePage_is_full(ti, c) ==
  BTreePage_slotpos(ti, BTreePage_get_num_recs(c) + 1) < BLOCK_SIZE

\* the loop of find_slot_befor
RECURSIVE BTreePage_find_slot(_, _, _, _)
BTreePage_find_slot(ti, c, searchkey, slot) ==
  IF /\ slot < BTreePage_get_num_recs(c)
     /\ BTreePage_get_data_val(ti, c, slot) < searchkey
  THEN BTreePage_find_slot(ti, c, searchkey, slot + 1)
  ELSE slot

\* BTreePage.find_slot_befor
BTreePage_find_slot_befor(ti, c, searchkey) ==
  BTreePage_find_slot(ti, c, searchkey, 0) - 1

\* BTreePage.split after __transfer_records: the block and the new block
BTreePage_transferred(F, blk, flag, r) ==
  [F |-> Append([F EXCEPT ![blk + 1] = r.c],
                BTreePage_set_flag(r.dest, flag)),
   newblk |-> Len(F)]

\* BTreePage.split on block blk of file F: append_new, __transfer_records,
\* set_flag; the new block is the last of the file
BTreePage_split(ti, F, blk, splitpos, flag) ==
  BTreePage_transferred(F, blk, flag,
    BTreePage_transfer_records(ti, F[blk + 1], splitpos,
                               BTPageFormatter_format(flag), 0))

BTreePage_get_child_num(c, slot) ==
  BTreePage_get_int(DirTi, c, slot, DirTi.block)

BTreePage_insert_dir(c, slot, val, blknum) ==
  BTreePage_set_int(DirTi,
    BTreePage_set_int(DirTi, BTreePage_insert(DirTi, c, slot),
                      slot, DirTi.dataval, val),
    slot, DirTi.block, blknum)

BTreePage_get_data_rid(c, slot) ==
  <<BTreePage_get_int(LeafTi, c, slot, LeafTi.block),
    BTreePage_get_int(LeafTi, c, slot, LeafTi.id)>>

BTreePage_insert_leaf(c, slot, val, rid) ==
  BTreePage_set_int(LeafTi,
    BTreePage_set_int(LeafTi,
      BTreePage_set_int(LeafTi, BTreePage_insert(LeafTi, c, slot),
                        slot, LeafTi.dataval, val),
      slot, LeafTi.block, rid[1]),
    slot, LeafTi.id, rid[2])

\* a directory entry, or None
DirEntry(dataval, blocknum) ==
  [some |-> TRUE, dataval |-> dataval, blocknum |-> blocknum]

NoEntry == [some |-> FALSE, dataval |-> 0, blocknum |-> 0]

\* BTreeLeaf.__init__ on block blk of the leaf file F
BTreeLeaf_init(F, blk, searchkey) ==
  [blk |-> blk, searchkey |-> searchkey,
   currentslot |-> BTreePage_find_slot_befor(LeafTi, F[blk + 1], searchkey)]

\* BTreeLeaf.__try_over_flow
BTreeLeaf_try_over_flow(F, L) ==
  LET firstkey == BTreePage_get_data_val(LeafTi, F[L.blk + 1], 0)
      flag == BTreePage_get_flag(F[L.blk + 1])
  IN IF L.searchkey # firstkey \/ flag < 0
     THEN [found |-> FALSE, L |-> L]
     ELSE [found |-> TRUE, L |-> [L EXCEPT !.blk = flag, !.currentslot = 0]]

\* BTreeLeaf.next
BTreeLeaf_next(F, L) ==
  LET L1 == [L EXCEPT !.currentslot = @ + 1]
      c == F[L1.blk + 1]
  IN IF L1.currentslot >= BTreePage_get_num_recs(c)
     THEN BTreeLeaf_try_over_flow(F, L1)
     ELSE IF BTreePage_get_data_val(LeafTi, c, L1.currentslot) = L1.searchkey
          THEN [found |-> TRUE, L |-> L1]
          ELSE BTreeLeaf_try_over_flow(F, L1)

BTreeLeaf_get_data_rid(F, L) ==
  BTreePage_get_data_rid(F[L.blk + 1], L.currentslot)

\* BTreeLeaf.delete: the loop goes on after a record is deleted
RECURSIVE BTreeLeaf_delete(_, _, _)
BTreeLeaf_delete(F, L, data_rid) ==
  LET n == BTreeLeaf_next(F, L)
  IN IF ~n.found THEN F
     ELSE IF BTreeLeaf_get_data_rid(F, n.L) = data_rid
          THEN BTreeLeaf_delete(
                 [F EXCEPT ![n.L.blk + 1] =
                    BTreePage_delete(LeafTi, @, n.L.currentslot)],
                 n.L, data_rid)
          ELSE BTreeLeaf_delete(F, n.L, data_rid)

\* the loops of BTreeLeaf.insert that move the split position off a run of
\* equal keys
RECURSIVE move_right(_, _, _)
move_right(c, splitpos, splitkey) ==
  IF BTreePage_get_data_val(LeafTi, c, splitpos) = splitkey
  THEN move_right(c, splitpos + 1, splitkey) ELSE splitpos

RECURSIVE move_left(_, _, _)
move_left(c, splitpos, splitkey) ==
  IF BTreePage_get_data_val(LeafTi, c, splitpos - 1) = splitkey
  THEN move_left(c, splitpos - 1, splitkey) ELSE splitpos

\* BTreeLeaf.insert after insert_leaf has made the current page c1: the
\* test of is_full, the overflow block, the split
BTreeLeaf_inserted(F, L, c1) ==
  LET F1 == [F EXCEPT ![L.blk + 1] = c1]
      firstkey == BTreePage_get_data_val(LeafTi, c1, 0)
      lastkey == BTreePage_get_data_val(LeafTi, c1,
                    BTreePage_get_num_recs(c1) - 1)
      mid == BTreePage_get_num_recs(c1) \div 2
      midkey == BTreePage_get_data_val(LeafTi, c1, mid)
      splitpos == IF midkey = firstkey
                  THEN move_right(c1, mid, midkey)
                  ELSE move_left(c1, mid, midkey)
      splitkey == BTreePage_get_data_val(LeafTi, c1, splitpos)
  IN IF ~BTreePage_is_full(LeafTi, c1)
     THEN [F |-> F1, e |-> NoEntry, splitpos |-> -1, full |-> c1]
     ELSE IF lastkey = firstkey
     THEN LET s == BTreePage_split(LeafTi, F1, L.blk, 1,
                                   BTreePage_get_flag(c1))
          IN [F |-> [s.F EXCEPT ![L.blk + 1] =
                       BTreePage_set_flag(@, s.newblk)],
              e |-> NoEntry, splitpos |-> -1, full |-> c1]
     ELSE LET s == BTreePage_split(LeafTi, F1, L.blk, splitpos, -1)
          IN [F |-> s.F, e |-> DirEntry(splitkey, s.newblk),
              splitpos |-> splitpos, full |-> c1]

\* BTreeLeaf.insert: the leaf file after it, the directory entry it
\* returns, and where it split the block (-1: no split, or an overflow
\* block), with the page as it was when is_full was asked
BTreeLeaf_insert(F, L, data_rid) ==
  LET c == F[L.blk + 1]
  IN IF /\ BTreePage_get_flag(c) >= 0
        /\ BTreePage_get_data_val(LeafTi, c, 0) > L.searchkey
     THEN LET firstval == BTreePage_get_data_val(LeafTi, c, 0)
              s == BTreePage_split(LeafTi, F, L.blk, 0, BTreePage_get_flag(c))
          IN [F |-> [s.F EXCEPT ![L.blk + 1] =
                       BTreePage_insert_leaf(BTreePage_set_flag(@, -1), 0,
                                             L.searchkey, data_rid)],
              e |-> DirEntry(firstval, s.newblk),
              splitpos |-> -1, full |-> c]
     ELSE BTreeLeaf_inserted(F, L,
            BTreePage_insert_leaf(c, L.currentslot + 1, L.searchkey,
                                  data_rid))

\* BTreeDir.__find_child_block on block blk of the directory file D
BTreeDir_find_child_block(D, blk, searchkey) ==
  LET c == D[blk + 1]
      slot == BTreePage_find_slot_befor(DirTi, c, searchkey)
  IN BTreePage_get_child_num(c,
       IF BTreePage_get_data_val(DirTi, c, slot + 1) = searchkey
       THEN slot + 1 ELSE slot)

\* BTreeDir.__insert_entry after insert_dir has made the page c1
BTreeDir_inserted(D, blk, c1) ==
  LET D1 == [D EXCEPT ![blk + 1] = c1]
      level == BTreePage_get_flag(c1)
      splitpos == BTreePage_get_num_recs(c1) \div 2
      splitval == BTreePage_get_data_val(DirTi, c1, splitpos)
      s == BTreePage_split(DirTi, D1, blk, splitpos, level)
  IN IF ~BTreePage_is_full(DirTi, c1)
     THEN [D |-> D1, e |-> NoEntry]
     ELSE [D |-> s.F, e |-> DirEntry(splitval, s.newblk)]

\* BTreeDir.__insert_entry
BTreeDir_insert_entry(D, blk, e) ==
  BTreeDir_inserted(D, blk,
    BTreePage_insert_dir(D[blk + 1],
      1 + BTreePage_find_slot_befor(DirTi, D[blk + 1], e.dataval),
      e.dataval, e.blocknum))

\* BTreeDir.search, from the directory block blk
RECURSIVE BTreeDir_search(_, _, _)
BTreeDir_search(D, blk, searchkey) ==
  LET childblk == BTreeDir_find_child_block(D, blk, searchkey)
  IN IF BTreePage_get_flag(D[blk + 1]) > 0
     THEN BTreeDir_search(D, childblk, searchkey)
     ELSE childblk

\* BTreeDir.make_new_root after the split of the root: the two entries,
\* the flag
BTreeDir_new_root(s, firstval, level, e) ==
  [BTreeDir_insert_entry(
     BTreeDir_insert_entry(s.F, 0, DirEntry(firstval, s.newblk)).D,
     0, e).D
   EXCEPT ![1] = BTreePage_set_flag(@, level + 1)]

\* BTreeDir.make_new_root on the root block
BTreeDir_make_new_root(D, e) ==
  BTreeDir_new_root(
    BTreePage_split(DirTi, D, 0, 0, BTreePage_get_flag(D[1])),
    BTreePage_get_data_val(DirTi, D[1], 0), BTreePage_get_flag(D[1]), e)

\* BTreeDir.insert after the insert into the child
BTreeDir_child_inserted(blk, myentry) ==
  IF myentry.e.some
  THEN BTreeDir_insert_entry(myentry.D, blk, myentry.e)
  ELSE [D |-> myentry.D, e |-> NoEntry]

\* BTreeDir.insert on the directory block blk
RECURSIVE BTreeDir_insert(_, _, _)
BTreeDir_insert(D, blk, e) ==
  IF BTreePage_get_flag(D[blk + 1]) = 0
  THEN BTreeDir_insert_entry(D, blk, e)
  ELSE BTreeDir_child_inserted(blk,
         BTreeDir_insert(D, BTreeDir_find_child_block(D, blk, e.dataval), e))

\* BTreeIndex.before_first on the files T: the leaf the directory names
BTreeIndex_before_first(T, search_key) ==
  BTreeLeaf_init(T.leaf, BTreeDir_search(T.dir, 0, search_key), search_key)

\* BTreeIndex.insert after root.insert(e) has returned e2
BTreeIndex_root_inserted(leaf, e2) ==
  IF e2.e.some
  THEN [leaf |-> leaf, dir |-> BTreeDir_make_new_root(e2.D, e2.e),
        newroot |-> TRUE]
  ELSE [leaf |-> leaf, dir |-> e2.D, newroot |-> FALSE]

\* BTreeIndex.insert after the insert into the leaf has returned r
BTreeIndex_leaf_inserted(T, r) ==
  IF ~r.e.some THEN [leaf |-> r.F, dir |-> T.dir, newroot |-> FALSE]
  ELSE BTreeIndex_root_inserted(r.F, BTreeDir_insert(T.dir, 0, r.e))

\* BTreeIndex.insert
BTreeIndex_insert(T, data_val, data_rid) ==
  BTreeIndex_leaf_inserted(T,
    BTreeLeaf_insert(T.leaf, BTreeIndex_before_first(T, data_val), data_rid))

\* BTreeIndex.delete
BTreeIndex_delete(T, data_val, data_rid) ==
  [leaf |-> BTreeLeaf_delete(T.leaf, BTreeIndex_before_first(T, data_val),
                             data_rid),
   dir |-> T.dir]

\* the dataRIDs read by BTreeLeaf.get_data_rid while next() returns true
RECURSIVE ScanFrom(_, _)
ScanFrom(F, L) ==
  LET n == BTreeLeaf_next(F, L)
  IN IF n.found THEN <<BTreeLeaf_get_data_rid(F, n.L)>> \o ScanFrom(F, n.L)
     ELSE <<>>

\* before_first(search_key), then next() until it returns false
Scan(T, search_key) ==
  ScanFrom(T.leaf, BTreeIndex_before_first(T, search_key))

\* the files of the index
Tree == [leaf |-> bt.leaf, dir |-> bt.dir]

NoCursor == [blk |-> 0, searchkey |-> 0, currentslot |-> -1]

NotTree == <<mainvars, rpage, lpage, rfile, ltab, pool, fmgr>>

\* BTreeIndex.insert
bt_insert(data_val, data_rid) ==
  /\ bt.calls < MaxTreeOps
  /\ \E T \in {BTreeIndex_insert(Tree, data_val, data_rid)} :
        bt' = [bt EXCEPT !.leaf = T.leaf, !.dir = T.dir,
                         !.calls = @ + 1,
                         !.open = FALSE, !.cursor = NoCursor, !.found = FALSE,
                         !.live = @ \cup {<<data_val, data_rid>>},
                         !.inserted = Append(@, <<data_val, data_rid>>),
                         !.newroots = @ + (IF T.newroot THEN 1 ELSE 0)]
  /\ UNCHANGED NotTree

\* BTreeIndex.delete
bt_delete(data_val, data_rid) ==
  /\ bt.calls < MaxTreeOps
  /\ \E T \in {BTreeIndex_delete(Tree, data_val, data_rid)} :
        bt' = [bt EXCEPT !.leaf = T.leaf, !.dir = T.dir,
                         !.calls = @ + 1,
                         !.open = FALSE, !.cursor = NoCursor, !.found = FALSE,
                         !.live = @ \ {<<data_val, data_rid>>},
                         !.deletes = @ + 1]
  /\ UNCHANGED NotTree

\* BTreeIndex.before_first
bt_before_first(search_key) ==
  /\ bt' = [bt EXCEPT !.open = TRUE, !.found = FALSE,
                      !.cursor = BTreeIndex_before_first(Tree, search_key)]
  /\ UNCHANGED NotTree

\* BTreeIndex.next on an open leaf, until it has returned false
bt_next ==
  /\ bt.open
  /\ \E n \in {BTreeLeaf_next(bt.leaf, bt.cursor)} :
        bt' = [bt EXCEPT !.cursor = n.L, !.found = n.found,
                         !.open = n.found]
  /\ UNCHANGED NotTree

\* the files BTreeIndex.__init__ creates: a leaf block with flag -1, a
\* directory block with flag 0 and the entry (minval, 0)
BTreeIndex_init ==
  [leaf |-> <<BTPageFormatter_format(-1)>>,
   dir |-> <<BTreePage_insert_dir(BTPageFormatter_format(0), 0,
                                  MinDataVal, 0)>>,
   calls |-> 0, open |-> FALSE, cursor |-> NoCursor, found |-> FALSE,
   live |-> {}, inserted |-> <<>>, deletes |-> 0, newroots |-> 0]

TreeInit ==
  /\ InitMain
  /\ rpage = NoPage
  /\ lpage = NoLogPage
  /\ rfile = NoFile
  /\ bt = BTreeIndex_init
  /\ ltab = NoTable
  /\ pool = NoPool
  /\ fmgr = NoFileMgr

TreeNext ==
  \/ \E data_val \in Keys, data_rid \in RIDs : bt_insert(data_val, data_rid)
  \/ \E data_val \in Keys, data_rid \in RIDs : bt_delete(data_val, data_rid)
  \/ \E search_key \in Keys : bt_before_first(search_key)
  \/ bt_next

TreeSpec == TreeInit /\ [][TreeNext]_vars

\* ------------------------------------- PageLockTable, statement by statement
\* One PageLockTable used by several threads, each through a PageLockMgr of
\* its own.  PageLockTable._cv is a threading.Condition over an RLock: owner
\* is the thread that holds it and depth the number of times it has acquired
\* it.  todo is what a call of PageLockMgr has still to ask of the table.
NotLock == <<mainvars, rpage, lpage, rfile, bt, pool, fmgr>>

LockCall(kind, b) == [kind |-> kind, blk |-> b]

\* PageLockMgr.__has_xlock / PageLockTable.__has_xlock
lt_has_xlock(b) == ltab.locks[b] < 0

\* PageLockTable.__has_other_slocks
lt_has_other_slocks(b) == ltab.locks[b] > 1

\* the calls of PageLockMgr.release: unlock for every key of _locks
RECURSIVE Unlocks(_, _)
Unlocks(t, bs) ==
  IF bs = {} THEN <<>>
  ELSE <<LockCall("unlock", Min(bs))>> \o Unlocks(t, bs \ {Min(bs)})

LockIdle(t) == ltab.pc[t] = "idle" /\ ltab.calls[t] < MaxLockCalls

Asked(t, calls) ==
  ltab' = [ltab EXCEPT !.todo[t] = calls,
                       !.pc[t] = IF calls = <<>> THEN "idle" ELSE "call",
                       !.result[t] = "none",
                       !.calls[t] = @ + 1]

\* PageLockMgr.slock
lm_slock(t, blk) ==
  /\ LockIdle(t)
  /\ Asked(t, IF ltab.held[t][blk] = "N" THEN <<LockCall("slock", blk)>>
              ELSE <<>>)
  /\ UNCHANGED NotLock

\* PageLockMgr.xlock
lm_xlock(t, blk) ==
  /\ LockIdle(t)
  /\ Asked(t, IF ltab.held[t][blk] = "X" THEN <<>>
              ELSE (IF ltab.held[t][blk] = "N"
                    THEN <<LockCall("slock", blk)>> ELSE <<>>)
                   \o <<LockCall("xlock", blk)>>)
  /\ UNCHANGED NotLock

\* PageLockMgr.release
lm_release(t) ==
  /\ LockIdle(t)
  /\ \E b \in LockBlks : ltab.held[t][b] # "N"
  /\ Asked(t, Unlocks(t, {b \in LockBlks : ltab.held[t][b] # "N"}))
  /\ UNCHANGED NotLock

\* self._cv.acquire(); timestamp = current_milli_time()
lt_acquire(t) ==
  /\ ltab.pc[t] = "call"
  /\ ltab.owner \in {0, t}
  /\ ltab' = [ltab EXCEPT !.owner = t, !.depth = @ + 1, !.pc[t] = "test",
                          !.waits[t] = 0]
  /\ UNCHANGED NotLock

\* the table call of thread t has returned: the PageLockMgr records the lock
\* and goes on to its next call, if any
Returned(L, t, mode) ==
  LET b == Head(L.todo[t]).blk
      rest == Tail(L.todo[t])
      h == IF mode = "N"
           THEN (IF rest = <<>> THEN [c \in LockBlks |-> "N"] ELSE L.held[t])
           ELSE [L.held[t] EXCEPT ![b] = mode]
  IN [L EXCEPT !.todo[t] = rest, !.held[t] = h,
               !.pc[t] = IF rest = <<>> THEN "idle" ELSE "call",
               !.result[t] = "ok"]

\* self._cv.release()
Released(L) ==
  [L EXCEPT !.depth = @ - 1, !.owner = IF L.depth = 1 THEN 0 ELSE @]

\* raise LockAbortException() (or a KeyError) inside the table: the exception
\* leaves the call of PageLockMgr; nothing releases _cv
Raised(L, t, what) ==
  [L EXCEPT !.todo[t] = <<>>, !.pc[t] = "idle", !.result[t] = what]

\* __waiting_too_long(timestamp) after n waits of MAX_TIME // 1000 seconds
\* have timed out: the test is 'elapsed > MAX_TIME', so after one timeout
\* either outcome is possible
TooLong(n) == IF n = 0 THEN {FALSE} ELSE IF n = 1 THEN {FALSE, TRUE}
              ELSE {TRUE}

\* slock and xlock from the test of the while loop to the wait, the grant or
\* the exception
lt_lock(t) ==
  /\ ltab.pc[t] = "test"
  /\ Head(ltab.todo[t]).kind \in {"slock", "xlock"}
  /\ LET c == Head(ltab.todo[t])
         busy == IF c.kind = "slock" THEN lt_has_xlock(c.blk)
                 ELSE lt_has_other_slocks(c.blk)
     IN \E late \in TooLong(ltab.waits[t]) :
          ltab' =
            IF busy /\ ~late
            THEN \* self._cv.wait(MAX_TIME // 1000) gives up the lock
                 [ltab EXCEPT !.pc[t] = "wait", !.saved[t] = ltab.depth,
                              !.owner = 0, !.depth = 0,
                              !.notified[t] = FALSE]
            ELSE IF busy
            THEN Raised(ltab, t, "LockAbort")
            ELSE IF c.kind = "slock"
            THEN Released(Returned([ltab EXCEPT !.locks[c.blk] = @ + 1],
                                   t, "S"))
            ELSE Released(Returned([ltab EXCEPT !.locks[c.blk] = -1],
                                   t, "X"))
  /\ UNCHANGED NotLock

\* unlock after the acquire
lt_unlock(t) ==
  /\ ltab.pc[t] = "test"
  /\ Head(ltab.todo[t]).kind = "unlock"
  /\ LET b == Head(ltab.todo[t]).blk
         val == ltab.locks[b]
     IN ltab' =
          IF val > 1
          THEN \* self._locks[blk] = val-1, and the method ends
               Returned([ltab EXCEPT !.locks[b] = val - 1], t, "N")
          ELSE IF val = 0
          THEN \* del self._locks[blk] of a key that is not there
               Raised(ltab, t, "KeyError")
          ELSE \* del, notify_all, release
               Released(Returned(
                 [ltab EXCEPT !.locks[b] = 0,
                              !.notified = [u \in Threads |->
                                  @[u] \/ ltab.pc[u] = "wait"]],
                 t, "N"))
  /\ UNCHANGED NotLock

\* the wait ends by its timeout
lt_timeout(t) ==
  /\ ltab.pc[t] = "wait"
  /\ ~ltab.notified[t]
  /\ ltab' = [ltab EXCEPT !.pc[t] = "woken", !.waits[t] = @ + 1]
  /\ UNCHANGED NotLock

\* the wait ends by a notify_all
lt_notified(t) ==
  /\ ltab.pc[t] = "wait"
  /\ ltab.notified[t]
  /\ ltab' = [ltab EXCEPT !.pc[t] = "woken", !.notified[t] = FALSE]
  /\ UNCHANGED NotLock

\* wait() takes the lock again before it returns
lt_reacquire(t) ==
  /\ ltab.pc[t] = "woken"
  /\ ltab.owner = 0
  /\ ltab' = [ltab EXCEPT !.owner = t, !.depth = ltab.saved[t],
                          !.pc[t] = "test"]
  /\ UNCHANGED NotLock

LockInit ==
  /\ InitMain
  /\ rpage = NoPage
  /\ lpage = NoLogPage
  /\ rfile = NoFile
  /\ bt = NoTree
  /\ ltab = NoTable
  /\ pool = NoPool
  /\ fmgr = NoFileMgr

LockNext ==
  \/ \E t \in Threads, blk \in LockBlks : lm_slock(t, blk)
  \/ \E t \in Threads, blk \in LockBlks : lm_xlock(t, blk)
  \/ \E t \in Threads : lm_release(t)
  \/ \E t \in Threads : lt_acquire(t)
  \/ \E t \in Threads : lt_lock(t)
  \/ \E t \in Threads : lt_unlock(t)
  \/ \E t \in Threads : lt_timeout(t)
  \/ \E t \in Threads : lt_notified(t)
  \/ \E t \in Threads : lt_reacquire(t)

LockSpec == LockInit /\ [][LockNext]_vars

\* ------------------------------------ BasicBufferMgr, statement by statement
\* One pool used by several threads.  BufferMgr.pin and pin_new call the basic
\* manager holding BufferMgr._cv; BufferMgr.unpin calls it without.  The
\* decorator synchronized gives every decorated method a threading.Lock of
\* its own.  A thread's frame holds the statements its call has still to
\* run; 'n += 1' is a load and a store.  held counts the pins a thread has
\* taken and not given back, by slot.
NotBasic == <<mainvars, rpage, lpage, rfile, bt, ltab, fmgr>>

PoolIdle(t) == pool.th[t].op = "none" /\ pool.calls[t] < MaxPoolCalls

At(t, step) == pool.th[t].todo # <<>> /\ Head(pool.th[t].todo) = step

\* the frame goes on with the statements todo
Goes(t, fields, todo) ==
  [fields EXCEPT !.th[t].todo = todo]

\* BufferMgr.pin -> BasicBufferMgr.pin
bb_pin(t, blk) ==
  /\ PoolIdle(t)
  /\ pool' = [pool EXCEPT !.th[t] = [NoFrame EXCEPT !.op = "pin",
                                       !.blk = blk,
                                       !.todo = <<"cv", "lock", "find">>],
                          !.calls[t] = @ + 1]
  /\ UNCHANGED NotBasic

\* BufferMgr.pin_new -> BasicBufferMgr.pin_new
bb_pin_new(t) ==
  /\ PoolIdle(t)
  /\ pool.size < MaxPoolBlocks
  /\ pool' = [pool EXCEPT !.th[t] = [NoFrame EXCEPT !.op = "pin_new",
                                       !.todo = <<"cv", "lock", "choose">>],
                          !.calls[t] = @ + 1]
  /\ UNCHANGED NotBasic

\* BufferList.unpin -> BufferMgr.unpin -> BasicBufferMgr.unpin, of a buffer
\* the thread has pinned
bb_unpin(t, buff) ==
  /\ PoolIdle(t)
  /\ pool.held[t][buff] > 0
  /\ pool' = [pool EXCEPT !.th[t] = [NoFrame EXCEPT !.op = "unpin",
                                       !.slot = buff,
                                       !.todo = <<"lock", "load_pins",
                                                  "store_pins", "test">>],
                          !.held[t][buff] = @ - 1,
                          !.calls[t] = @ + 1]
  /\ UNCHANGED NotBasic

\* self._cv.acquire()
bb_cv(t) ==
  /\ At(t, "cv")
  /\ pool.cv = 0
  /\ pool' = Goes(t, [pool EXCEPT !.cv = t], Tail(pool.th[t].todo))
  /\ UNCHANGED NotBasic

\* synchronized: 'with lock:' of the lock of the method called
bb_lock(t) ==
  /\ At(t, "lock")
  /\ pool.mlock[pool.th[t].op] = 0
  /\ pool' = Goes(t, [pool EXCEPT !.mlock[pool.th[t].op] = t],
                  Tail(pool.th[t].todo))
  /\ UNCHANGED NotBasic

\* pin: buff = self.__find_existing_buffer(blk)
bb_find(t) ==
  /\ At(t, "find")
  /\ LET c == {i \in PoolSlots : pool.slots[i].blk = pool.th[t].blk}
     IN pool' = IF c = {} THEN Goes(t, pool, <<"choose">>)
                ELSE Goes(t, [pool EXCEPT !.th[t].slot = Min(c)], <<"test">>)
  /\ UNCHANGED NotBasic

\* pin, pin_new: buff = self.__choose_unpinned_buffer(), None returned
bb_choose(t) ==
  /\ At(t, "choose")
  /\ LET c == {i \in PoolSlots : ~(pool.slots[i].pins > 0)}
     IN pool' =
          IF c = {} THEN Goes(t, pool, <<"unlock", "uncv">>)
          ELSE Goes(t, [pool EXCEPT !.th[t].slot = Min(c)],
                    IF pool.th[t].op = "pin" THEN <<"assign", "test">>
                    ELSE <<"assign", "load_avail", "store_avail",
                           "load_pins", "store_pins", "unlock", "uncv">>)
  /\ UNCHANGED NotBasic

\* buff.assign_to_block(blk); buff.assign_to_new(filename, fmtr), whose
\* block is the one FileMgr.append adds at the end of the file
bb_assign(t) ==
  /\ At(t, "assign")
  /\ LET f == pool.th[t]
     IN pool' =
          IF f.op = "pin"
          THEN Goes(t, [pool EXCEPT !.slots[f.slot] =
                                       [blk |-> f.blk, pins |-> 0]],
                    Tail(f.todo))
          ELSE Goes(t, [pool EXCEPT !.slots[f.slot] =
                                       [blk |-> pool.size, pins |-> 0],
                                    !.size = @ + 1],
                    Tail(f.todo))
  /\ UNCHANGED NotBasic

\* 'if not buff.is_pinned():' of pin and of unpin
bb_test(t) ==
  /\ At(t, "test")
  /\ LET f == pool.th[t]
         count == IF pool.slots[f.slot].pins > 0 THEN <<>>
                  ELSE <<"load_avail", "store_avail">>
     IN pool' = Goes(t, pool,
                     IF f.op = "pin"
                     THEN count \o <<"load_pins", "store_pins", "unlock",
                                     "uncv">>
                     ELSE count \o <<"unlock">>)
  /\ UNCHANGED NotBasic

\* the load of 'self._num_available -= 1' (+= 1) or 'self._pins += 1' (-= 1)
bb_load(t) ==
  /\ At(t, "load_avail") \/ At(t, "load_pins")
  /\ LET f == pool.th[t]
     IN pool' = Goes(t, [pool EXCEPT !.th[t].tmp =
                            IF Head(f.todo) = "load_avail" THEN pool.avail
                            ELSE pool.slots[f.slot].pins],
                     Tail(f.todo))
  /\ UNCHANGED NotBasic

\* the store of the same statement
bb_store(t) ==
  /\ At(t, "store_avail") \/ At(t, "store_pins")
  /\ LET f == pool.th[t]
         up1 == IF f.op = "unpin" THEN -1 ELSE 1
     IN pool' =
          IF Head(f.todo) = "store_avail"
          THEN Goes(t, [pool EXCEPT !.avail = f.tmp - up1], Tail(f.todo))
          ELSE Goes(t, [pool EXCEPT !.slots[f.slot].pins = f.tmp + up1],
                    Tail(f.todo))
  /\ UNCHANGED NotBasic

\* the end of 'with lock:', then self._cv.release(); the call returns after
\* its last statement and BufferList.pin records the buffer
bb_release(t) ==
  /\ At(t, "unlock") \/ At(t, "uncv")
  /\ LET f == pool.th[t]
         P == IF Head(f.todo) = "unlock"
              THEN [pool EXCEPT !.mlock[f.op] = 0]
              ELSE [pool EXCEPT !.cv = 0]
     IN pool' =
          IF Tail(f.todo) # <<>> THEN Goes(t, P, Tail(f.todo))
          ELSE [P EXCEPT !.th[t] = [NoFrame EXCEPT !.result = f.slot],
                         !.held[t] = IF f.op # "unpin" /\ f.slot # 0
                                     THEN [@ EXCEPT ![f.slot] = @ + 1]
                                     ELSE @]
  /\ UNCHANGED NotBasic

BasicInit ==
  /\ InitMain
  /\ rpage = NoPage
  /\ lpage = NoLogPage
  /\ rfile = NoFile
  /\ bt = NoTree
  /\ ltab = NoTable
  /\ pool = NoPool
  /\ fmgr = NoFileMgr

BasicNext ==
  \/ \E t \in Threads, blk \in PoolBlks : bb_pin(t, blk)
  \/ \E t \in Threads : bb_pin_new(t)
  \/ \E t \in Threads, buff \in PoolSlots : bb_unpin(t, buff)
  \/ \E t \in Threads : bb_cv(t)
  \/ \E t \in Threads : bb_lock(t)
  \/ \E t \in Threads : bb_find(t)
  \/ \E t \in Threads : bb_choose(t)
  \/ \E t \in Threads : bb_assign(t)
  \/ \E t \in Threads : bb_test(t)
  \/ \E t \in Threads : bb_load(t)
  \/ \E t \in Threads : bb_store(t)
  \/ \E t \in Threads : bb_release(t)

BasicSpec == BasicInit /\ [][BasicNext]_vars

\* ------------------------------------------- FileMgr, statement by statement
\* One FileMgr and one file used by several threads.  The file object of
\* get_file is shared and has one position, counted in blocks here.  Every
\* synchronized method has a threading.Lock of its own; append calls size
\* and write from inside its own lock.  blks lists the block numbers the
\* appends have returned.
NotFm == <<mainvars, rpage, lpage, rfile, bt, ltab, pool>>

FmIdle(t) == fmgr.th[t].op = "none" /\ fmgr.calls[t] < MaxFmCalls

FmAt(t, k) == fmgr.th[t].todo # <<>> /\ Head(fmgr.th[t].todo).k = k

St(k, m) == [k |-> k, m |-> m]

FmCalled(t, op, blk, val, todo) ==
  [fmgr EXCEPT !.th[t] = [op |-> op, blk |-> blk, val |-> val, tmp |-> 0,
                          todo |-> todo],
               !.calls[t] = @ + 1]

\* the statements of size and of write inside their locks
SizeSteps == <<St("lock", "size"), St("seek_end", "size"), St("tell", "size"),
               St("unlock", "size")>>
WriteSteps == <<St("lock", "write"), St("seek", "write"),
                St("write", "write"), St("unlock", "write")>>

\* FileMgr.read
fm_read(t, blk) ==
  /\ FmIdle(t)
  /\ fmgr' = FmCalled(t, "read", blk, 0,
                      <<St("lock", "read"), St("seek", "read"),
                        St("readinto", "read"), St("unlock", "read")>>)
  /\ UNCHANGED NotFm

\* FileMgr.write of a block of the file
fm_write(t, blk, val) ==
  /\ FmIdle(t)
  /\ blk < Len(fmgr.file)
  /\ fmgr' = FmCalled(t, "write", blk, val, WriteSteps)
  /\ UNCHANGED NotFm

\* FileMgr.size
fm_size(t) ==
  /\ FmIdle(t)
  /\ fmgr' = FmCalled(t, "size", NoBlock, 0, SizeSteps)
  /\ UNCHANGED NotFm

\* FileMgr.append: newblknum = self.size(filename); self.write(blk, bb)
fm_append(t, val) ==
  /\ FmIdle(t)
  /\ fmgr.appends < MaxFmAppends
  /\ fmgr' = [FmCalled(t, "append", NoBlock, val,
                       <<St("lock", "append")>> \o SizeSteps \o WriteSteps
                       \o <<St("unlock", "append")>>)
              EXCEPT !.appends = @ + 1]
  /\ UNCHANGED NotFm

FmGoes(t, F) == [F EXCEPT !.th[t].todo = Tail(@)]

\* synchronized: 'with lock:' of the lock of the method entered
fm_lock(t) ==
  /\ FmAt(t, "lock")
  /\ fmgr.mlock[Head(fmgr.th[t].todo).m] = 0
  /\ fmgr' = FmGoes(t, [fmgr EXCEPT !.mlock[Head(fmgr.th[t].todo).m] = t])
  /\ UNCHANGED NotFm

\* the end of 'with lock:'; after the last one the call returns, an append
\* with the block it made
fm_unlock(t) ==
  /\ FmAt(t, "unlock")
  /\ LET f == fmgr.th[t]
         F == [fmgr EXCEPT !.mlock[Head(f.todo).m] = 0]
     IN fmgr' =
          IF Tail(f.todo) # <<>> THEN FmGoes(t, F)
          ELSE [F EXCEPT !.th[t] = [NoFmCall EXCEPT !.tmp = f.tmp],
                         !.blks = IF f.op = "append"
                                  THEN Append(@, f.blk) ELSE @]
  /\ UNCHANGED NotFm

\* fc.seek(BLOCK_SIZE * blk.number())
fm_seek(t) ==
  /\ FmAt(t, "seek")
  /\ fmgr' = FmGoes(t, [fmgr EXCEPT !.pos = fmgr.th[t].blk])
  /\ UNCHANGED NotFm

\* file.seek(0, 2)
fm_seek_end(t) ==
  /\ FmAt(t, "seek_end")
  /\ fmgr' = FmGoes(t, [fmgr EXCEPT !.pos = Len(fmgr.file)])
  /\ UNCHANGED NotFm

\* return math.ceil(file.tell() / BLOCK_SIZE); in append the result names
\* the new block
fm_tell(t) ==
  /\ FmAt(t, "tell")
  /\ fmgr' = FmGoes(t, [fmgr EXCEPT !.th[t].tmp = fmgr.pos,
                                    !.th[t].blk =
                                       IF fmgr.th[t].op = "append"
                                       THEN fmgr.pos ELSE @])
  /\ UNCHANGED NotFm

\* fc.readinto(bb): the block at the position, nothing at the end of the file
fm_readinto(t) ==
  /\ FmAt(t, "readinto")
  /\ fmgr' =
       FmGoes(t, IF fmgr.pos < Len(fmgr.file)
                 THEN [fmgr EXCEPT !.th[t].tmp = fmgr.file[fmgr.pos + 1],
                                   !.pos = @ + 1]
                 ELSE [fmgr EXCEPT !.th[t].tmp = NoVal])
  /\ UNCHANGED NotFm

\* fc.write(bb): over the block at the position, or at the end of the file
\* after zeros for the blocks between
fm_fc_write(t) ==
  /\ FmAt(t, "write")
  /\ LET p == fmgr.pos
         v == fmgr.th[t].val
         n == IF p < Len(fmgr.file) THEN Len(fmgr.file) ELSE p + 1
     IN fmgr' = FmGoes(t, [fmgr EXCEPT
                  !.file = [i \in 1..n |->
                              IF i = p + 1 THEN v
                              ELSE IF i <= Len(fmgr.file) THEN fmgr.file[i]
                              ELSE 0],
                  !.pos = p + 1])
  /\ UNCHANGED NotFm

FmInit ==
  /\ InitMain
  /\ rpage = NoPage
  /\ lpage = NoLogPage
  /\ rfile = NoFile
  /\ bt = NoTree
  /\ ltab = NoTable
  /\ pool = NoPool
  /\ fmgr = NoFileMgr

FmNext ==
  \/ \E t \in Threads, blk \in FmBlks : fm_read(t, blk)
  \/ \E t \in Threads, blk \in FmBlks, val \in FmVals : fm_write(t, blk, val)
  \/ \E t \in Threads : fm_size(t)
  \/ \E t \in Threads, val \in FmVals : fm_append(t, val)
  \/ \E t \in Threads : fm_lock(t)
  \/ \E t \in Threads : fm_unlock(t)
  \/ \E t \in Threads : fm_seek(t)
  \/ \E t \in Threads : fm_seek_end(t)
  \/ \E t \in Threads : fm_tell(t)
  \/ \E t \in Threads : fm_readinto(t)
  \/ \E t \in Threads : fm_fc_write(t)

FmSpec == FmInit /\ [][FmNext]_vars

\* ------------------------------------------------------------- properties
\* the value a reader of block b finds at location o: the buffer's when the
\* block is in the pool, the file's otherwise
Visible(B, D, b, o) ==
  IF \E i \in Slots : B[i].blk = b
  THEN B[CHOOSE i \in Slots : B[i].blk = b].contents[o]
  ELSE D[b][o]

\* C1: when rollback() of a transaction returns, every location the
\* transaction wrote holds, in the buffer and on disk, the value it held
\* before the transaction's first write to it.
C1_RollbackRestores ==
  [][\A t \in Tx :
       (status[t] = "active" /\ status'[t] = "rolledback") =>
         \A b \in Blocks, o \in Offsets :
            preVal[t][b][o] # NoVal =>
              /\ disk'[b][o] = preVal[t][b][o]
              /\ Visible(bufs', disk', b, o) = preVal[t][b][o]]_vars

\* the log file holds a set record of transaction t for location (b, o)
Logged(t, b, o) ==
  \E k \in 1..Len(logDisk) : \E j \in 1..Len(logDisk[k]) :
     LET r == logDisk[k][j]
     IN IsSet(r) /\ r.tx = t /\ r.blk = b /\ r.off = o

Unfinished(t) == status[t] \in {"active", "failed"}

\* C2: after a crash, restart and recover(), every location written by a
\* logged set of a transaction without COMMIT or ROLLBACK record holds the
\* value it had before that transaction's first write, and no record of a
\* transaction with a COMMIT record is undone.
C2_RecoverUndoesUnfinished ==
  [][(~up /\ up') =>
       /\ \A t \in Tx, b \in Blocks, o \in Offsets :
             (Unfinished(t) /\ Logged(t, b, o)) =>
                Visible(bufs', disk', b, o) = preVal[t][b][o]
       /\ \A n \in 1..Len(do_recover(LogIterator(Store), {})) :
             Unfinished(do_recover(LogIterator(Store), {})[n].tx)]_vars

\* C3: after a crash, restart and recover(), every location holds on disk the
\* value last written to it by a transaction whose commit() had returned.
C3_CommittedSurvives ==
  [][(~up /\ up') =>
       \A b \in Blocks, o \in Offsets :
          expect[b][o] # NoVal => disk'[b][o] = expect[b][o]]_vars

\* C4: whenever a buffer's page is written to disk, the log file already
\* holds every record with an LSN up to the LSN recorded in the buffer.
C4_WriteAheadLog == wal # "broken"

\* a modified page was written to disk with its log records forced before
C4_Witness == wal = "ok" /\ \E b \in Blocks : disk[b] # ZeroPage

\* C5: no two live transactions hold an exclusive lock on the same block, and
\* none holds a shared lock on a block another holds exclusively.
C5_LocksExclude ==
  \A t \in Tx, u \in Tx, b \in Blocks :
     (t # u /\ Live(t) /\ Live(u) /\ locks[t][b] = "X") => locks[u][b] = "N"

\* C6: a get of a location by a transaction that has set it returns the value
\* that transaction last set.
C6_ReadOwnWrite ==
  (ret # NoRet /\ lastSet[ret.tx][ret.blk][ret.off] # NoVal) =>
     ret.val = lastSet[ret.tx][ret.blk][ret.off]

Rank(m) == CASE m = "N" -> 0 [] m = "S" -> 1 [] m = "X" -> 2

\* C7: while a transaction is active, none of its locks is released or
\* downgraded, and no entry of the lock table is removed or decremented for
\* it.
C7_NoEarlyRelease ==
  [][\A t \in Tx :
       (Live(t) /\ up' /\ status'[t] = "active") =>
         \A k \in LockKeys :
            /\ Rank(locks'[t][k]) >= Rank(locks[t][k])
            /\ locktbl[t][k] > 0 =>
                  (locktbl'[t][k] < 0 \/ locktbl'[t][k] >= locktbl[t][k])
            /\ locktbl[t][k] < 0 => locktbl'[t][k] < 0]_vars

\* an active transaction holds a shared and an exclusive lock and has made
\* another call since
C7_Witness ==
  \E t \in Tx :
     /\ Live(t) /\ ops[t] = MaxOps
     /\ \E k \in LockKeys : locks[t][k] = "X"
     /\ \E k \in LockKeys : locks[t][k] = "S"

\* the pins transaction t holds on slot i
PinsOn(t, i) ==
  SumPins(txPins[t], {b \in Blocks : txPins[t][b] > 0 /\ txBuffers[t][b] = i})

C9_FailureReleases ==
  \A t \in Tx :
     status[t] = "failed" =>
        /\ locks[t] = NoLocks
        /\ \A b \in Blocks : txPins[t][b] = 0

\* C10: a lock request on a block is not granted to a transaction while
\* another live transaction holds the block exclusively.
C10_NoGrantUnderXLock ==
  [][\A t \in Tx, b \in Blocks :
       (locks[t][b] = "N" /\ locks'[t][b] # "N") =>
          ~\E u \in Tx : u # t /\ Live(u) /\ locks[u][b] = "X"]_vars

\* C11: every BufferMgr.pin and BufferMgr.pin_new call that has to wait
\* ends, with a buffer or with BufferAbortException.
C11_PinTerminates ==
  \A t \in Tx : (InPin(t) \/ InPinNew(t)) ~> (pc[t] = "idle")

\* C12: a notification is never lost: when a slot has pin count zero and no
\* unpin is between its decrement and its notify_all, every thread waiting in
\* pin or pin_new has been notified since it began to wait.
C12_NotifyNotLost ==
  ((\E i \in Slots : bufs[i].pins = 0)
     /\ \A u \in Tx : pc[u] \notin {"unpin_test", "unpin_notify"})
  => \A t \in Tx : pc[t] \in {"pinwait", "newwait"} => woken[t]

\* a thread waits in pin after an unpin has brought a slot to pin count zero
\* and has finished, and the thread has got the notification
C12_Witness ==
  \E t \in Tx :
     /\ pc[t] = "pinwait" /\ woken[t]
     /\ \E i \in Slots : bufs[i].pins = 0
     /\ \A u \in Tx : pc[u] \notin {"unpin_test", "unpin_notify"}

AllPinned == \A i \in Slots : bufs[i].pins > 0

\* C13: with every slot pinned, the basic pin of a block held in a slot
\* returns that slot with its pin count one higher and nothing else changed,
\* and the basic pin of a block held in no slot returns None and changes
\* nothing.
C13_BasicPinWhenFull ==
  AllPinned =>
    \A b \in Blocks :
       b < fsize =>
         LET p == BasicBufferMgr_pin(Store, b)
         IN IF \E i \in Slots : bufs[i].blk = b
            THEN /\ p.slot # 0
                 /\ bufs[p.slot].blk = b
                 /\ p.S = [Store EXCEPT !.bufs[p.slot].pins = @ + 1]
            ELSE p.slot = 0 /\ p.S = Store

\* every slot is pinned, one block has been pinned a second time, and a
\* thread's pin of another block has returned None
C13_Witness ==
  /\ AllPinned
  /\ \E t \in Tx : pc[t] = "pin_checked"
  /\ \E i \in Slots : bufs[i].pins >= 2

\* C14: available() is the number of slots with pin count zero, between 0
\* and the pool size.
C14_AvailableCounts ==
  /\ avail = Cardinality({i \in Slots : bufs[i].pins = 0})
  /\ avail \in 0..NumBuffs

\* a slot has been pinned and unpinned again and counts as available
C14_Witness ==
  /\ avail = NumBuffs
  /\ \E i \in Slots : bufs[i].blk # NoBlock /\ bufs[i].pins = 0
  /\ \E t \in Tx : ops[t] >= 2 /\ pc[t] = "idle"

\* C15: a slot with pin count above zero keeps its block, and its page
\* changes only through a transaction's set, never through a disk read or a
\* formatter.
C15_PinnedNotReplaced ==
  [][\A i \in Slots :
       (bufs[i].pins > 0 /\ up') =>
          /\ bufs'[i].blk = bufs[i].blk
          /\ bufs'[i].contents # bufs[i].contents =>
                bufs'[i].modified_by > 0]_vars

\* a thread waits for a slot while the only candidate, modified and pinned,
\* stays bound to its block
C15_Witness ==
  /\ \E t \in Tx : pc[t] = "pinwait"
  /\ \E i \in Slots : /\ bufs[i].pins > 0
                      /\ bufs[i].modified_by > 0
                      /\ bufs[i].contents # disk[bufs[i].blk]

\* an adapter call of transaction t ends in this step without a new pin:
\* it ends with an exception
RemoteRaises(t) ==
  /\ status[t] = "active"
  /\ pc[t] # "idle" /\ pc'[t] = "idle"
  /\ SumPins(txPins'[t], Blocks) <= SumPins(txPins[t], Blocks)

\* C16: when a call of the remote adapter ends with a transaction-fatal
\* error, the connection's transaction has been rolled back and holds no
\* lock and no pin.
C16_RemoteRollsBack ==
  [][\A t \in Tx :
       RemoteRaises(t) =>
          /\ status'[t] = "rolledback"
          /\ locks'[t] = NoLocks
          /\ \A b \in Blocks : txPins'[t][b] = 0]_vars

\* the step is a set_string call on the page
SetStringStep ==
  rpage'.calls = rpage.calls + 1 /\ rpage'.call.op = "set_string"

\* C17: a set_string leaves the page BLOCK_SIZE bytes long and leaves every
\* byte outside the string field of the current record as it was; when the
\* encoded value is longer than the field it fails with InvalidValue and
\* changes no byte.
C17_SetStringBounded ==
  [][SetStringStep =>
       LET pos == RecordPage_fieldpos(rpage.currentslot, StrFieldOffset)
       IN /\ Len(rpage'.contents) = BLOCK_SIZE
          /\ \A i \in 1..BLOCK_SIZE :
                (i <= pos \/ i > pos + str_size(StrFieldLen)) =>
                   rpage'.contents[i] = rpage.contents[i]
          /\ Len(rpage'.call.val) > StrFieldLen =>
                /\ rpage'.call.outcome = "InvalidValue"
                /\ rpage'.contents = rpage.contents]_vars

\* C18: the iterator yields the records appended, each once, the most
\* recent first, and has no next record after the oldest.
C18_IteratorReverses ==
  LogIterator(LogMgr_iterator(Store)) = Reverse(Flatten(appended))

\* the step appends a record to the log
AppendStep == Len(Flatten(appended')) = Len(Flatten(appended)) + 1

\* C19: append starts a new block exactly when the record, with its
\* back-pointer, is at least one byte longer than the space left in the
\* current block; a record as long as the space left stays in the block.
C19_ExactFitStays ==
  [][AppendStep =>
       LET rec == Flatten(appended')[Len(Flatten(appended'))]
       IN (Len(logDisk') > Len(logDisk))
            <=> (RecSize(rec) > BLOCK_SIZE - currentpos(logPage))]_vars

\* C20: after flush(lsn) every record with an LSN up to lsn is in the log
\* file, for the LSN of the current block and for every earlier one.
C20_FlushCovers ==
  \A lsn \in 0..MaxAppends :
     lsn <= current_lsn(Store) => Durable(LogMgr_flush(Store, lsn), lsn)

\* the log has moved to a later block whose records are not yet written,
\* and a flush up to the first block writes nothing
C20_Witness ==
  /\ Len(logDisk) >= 2
  /\ logDisk[Len(logDisk)] # logPage
  /\ logDisk[1] # <<>>
  /\ LogMgr_flush(Store, 0) = Store

\* the positions met from the integer at LAST_POS along the back-pointers,
\* as long as they are not 0, in at most n steps
RECURSIVE ChainFrom(_, _, _)
ChainFrom(contents, pos, n) ==
  IF pos = 0 \/ n = 0 THEN <<>>
  ELSE <<pos>> \o ChainFrom(contents, Page_get_int(contents, pos), n - 1)

ChainOf(contents) ==
  ChainFrom(contents, Page_get_int(contents, LAST_POS), BLOCK_SIZE)

\* the chain of a block is the back-pointers of its records, the newest first
ChainRight(contents, ptrs) ==
  /\ Page_get_int(contents, LAST_POS)
        = (IF ptrs = <<>> THEN 0 ELSE ptrs[Len(ptrs)])
  /\ \A k \in 1..Len(ptrs) :
        Page_get_int(contents, ptrs[k]) = (IF k = 1 THEN 0 ELSE ptrs[k - 1])
  /\ ChainOf(contents) = Reverse(ptrs)

\* C21: in the current log page and in every block written, offset 0 holds
\* the position of the newest record's back-pointer, each back-pointer holds
\* the position of the one before, and the chain from the tail meets every
\* record once, the newest first, and ends at 0.
C21_ChainEnumerates ==
  lpage.contents # <<>> =>
    /\ ChainRight(lpage.contents, lpage.ptrs)
    /\ \A b \in 1..Len(lpage.written) :
          ChainRight(lpage.written[b].contents, lpage.written[b].ptrs)

\* a block written with two records or more and a current page with two
C21_Witness ==
  /\ Len(lpage.ptrs) >= 2
  /\ \E b \in 1..Len(lpage.written) : Len(lpage.written[b].ptrs) >= 2

\* Transaction.append returns to transaction t in this step: in the call
\* itself, or when the wait inside BufferMgr.pin_new ends with a buffer
AppendReturns(t) ==
  /\ BasicBufferMgr_pin_new(Store).slot # 0
  /\ tx_append(t) \/ pin_new_wake(t)

\* the block Transaction.append returns: buff.block() of the buffer that
\* BasicBufferMgr.pin_new assigned
AppendedBlock == bufs'[BasicBufferMgr_pin_new(Store).slot].blk

RECURSIVE InUseFrom(_, _)
InUseFrom(contents, slot) ==
  IF ~rp_is_valid_slot(slot) THEN <<>>
  ELSE (IF Page_get_int(contents, rp_currentpos(slot)) = INUSE
        THEN <<slot>> ELSE <<>>) \o InUseFrom(contents, slot + 1)

\* the INUSE records of the file in increasing (block, slot) order
RECURSIVE InUseOf(_, _)
InUseOf(blocks, b) ==
  IF b >= Len(blocks) THEN <<>>
  ELSE LET ss == InUseFrom(blocks[b + 1], 0)
       IN [k \in 1..Len(ss) |-> <<b, ss[k]>>] \o InUseOf(blocks, b + 1)

\* the records a client visits by calling next() until it returns false
RECURSIVE Visited(_)
Visited(rf) ==
  LET r == RecordFile_next(rf)
  IN IF r.found THEN <<<<r.currentblknum, r.currentslot>>>> \o Visited(r)
     ELSE <<>>

\* C23: from before_first(), repeated next() visits exactly the INUSE slots
\* of the file, each once, in increasing (block, slot) order, and then
\* returns false; a slot whose flag is EMPTY is not visited
C23_ScanVisitsInUse ==
  rfile.blocks # <<>> =>
    Visited(RecordFile_move_to(rfile, 0)) = InUseOf(rfile.blocks, 0)

\* the file has two blocks with a record in each, and a deleted slot
C23_Witness ==
  /\ Len(rfile.blocks) >= 2
  /\ InUseFrom(rfile.blocks[1], 0) # <<>>
  /\ InUseFrom(rfile.blocks[2], 0) # <<>>
  /\ \E b \in 1..Len(rfile.blocks), s \in rf_slots :
        /\ Page_get_int(rfile.blocks[b], rp_currentpos(s)) = EMPTY
        /\ rp_get_int(rfile.blocks[b], s) # 0

\* the flag of a slot of a page
rp_flag(contents, slot) == Page_get_int(contents, rp_currentpos(slot))

\* two pages of BLOCK_SIZE bytes differ at most in the flag of one slot
SameButFlag(c1, c2, slot) ==
  /\ Len(c1) = BLOCK_SIZE /\ Len(c2) = BLOCK_SIZE
  /\ SubSeq(c1, 1, rp_currentpos(slot)) = SubSeq(c2, 1, rp_currentpos(slot))
  /\ SubSeq(c1, rp_currentpos(slot) + INT_SIZE + 1, BLOCK_SIZE)
        = SubSeq(c2, rp_currentpos(slot) + INT_SIZE + 1, BLOCK_SIZE)

\* C24: on every page, whatever the current slot, RecordPage.insert sets
\* the flag of the lowest-numbered EMPTY slot to INUSE and changes no other
\* byte, or returns false and changes no byte when no slot is EMPTY;
\* RecordPage.delete sets the flag of the current slot to EMPTY, changes no
\* other byte and leaves the field of the record readable
C24_InsertDeleteFrame ==
  \A b \in 1..Len(rfile.blocks) :
    LET c == rfile.blocks[b]
        empties == {s \in rf_slots : rp_flag(c, s) = EMPTY}
    IN /\ \A cur \in -1..MaxSlot :
            LET r == rp_insert(c, cur)
            IN IF empties # {}
               THEN /\ r.found
                    /\ r.slot = Min(empties)
                    /\ rp_flag(r.contents, r.slot) = INUSE
                    /\ SameButFlag(c, r.contents, r.slot)
               ELSE ~r.found /\ r.contents = c
       /\ \A s \in rf_slots :
            LET d == rp_delete(c, s)
            IN /\ rp_flag(d, s) = EMPTY
               /\ SameButFlag(c, d, s)
               /\ rp_get_int(d, s) = rp_get_int(c, s)

\* an insert has found a block full and gone on to the next, and a record
\* deleted after its field was set is still on a page
C24_Witness ==
  /\ \E b \in 1..Len(rfile.blocks) :
        \A s \in rf_slots : rp_flag(rfile.blocks[b], s) = INUSE
  /\ \E b \in 1..Len(rfile.blocks), s \in rf_slots :
        /\ rp_flag(rfile.blocks[b], s) = EMPTY
        /\ rp_get_int(rfile.blocks[b], s) # 0
        /\ \E s2 \in rf_slots : s2 > s /\ rp_flag(rfile.blocks[b], s2) = INUSE

\* the datavals of the records of a leaf page, slot by slot
LeafVals(c) ==
  [i \in 1..BTreePage_get_num_recs(c) |->
     BTreePage_get_data_val(LeafTi, c, i - 1)]

\* the datavals of leaf block blk and of the overflow blocks its flag
\* leads to, at most n blocks further
RECURSIVE ChainVals(_, _, _)
ChainVals(F, blk, n) ==
  LeafVals(F[blk + 1]) \o
    (IF BTreePage_get_flag(F[blk + 1]) >= 0 /\ n > 0
     THEN ChainVals(F, BTreePage_get_flag(F[blk + 1]), n - 1)
     ELSE <<>>)

\* the datavals read from directory block blk, child after child in slot
\* order from slot on: under a block of flag 0 the leaf the child names
\* with its overflow blocks, under any other block the directory block
RECURSIVE TreeVals(_, _, _)
TreeVals(T, blk, slot) ==
  LET c == T.dir[blk + 1]
      child == BTreePage_get_child_num(c, slot)
  IN IF slot >= BTreePage_get_num_recs(c) THEN <<>>
     ELSE (IF BTreePage_get_flag(c) = 0
           THEN ChainVals(T.leaf, child, Len(T.leaf))
           ELSE TreeVals(T, child, 0))
          \o TreeVals(T, blk, slot + 1)

Nondecreasing(s) == \A i \in 1..(Len(s) - 1) : s[i] <= s[i + 1]

\* C25: after any sequence of inserts and deletes the records of every
\* leaf block are in nondecreasing order of dataval, also on the page
\* insert has just written to and not yet split, and the datavals read
\* left to right, along every chain of overflow blocks and through the
\* directory from the root, are nondecreasing.
C25_LeafOrder ==
  bt.leaf # <<>> =>
    /\ \A b \in 1..Len(bt.leaf) :
          /\ Nondecreasing(LeafVals(bt.leaf[b]))
          /\ Nondecreasing(ChainVals(bt.leaf, b - 1, Len(bt.leaf)))
    /\ Nondecreasing(TreeVals(Tree, 0, 0))
    /\ \A data_val \in Keys, data_rid \in RIDs :
          Nondecreasing(LeafVals(
            BTreeLeaf_insert(bt.leaf,
              BTreeIndex_before_first(Tree, data_val), data_rid).full))

\* the dataRIDs a scan with search key search_key returns, as a set
Found(T, search_key) ==
  {Scan(T, search_key)[i] : i \in 1..Len(Scan(T, search_key))}

\* C26: for any key K inserted with dataRID R and not later deleted, after
\* any further inserts and deletes of other entries, before_first(K)
\* followed by repeated next() reaches an entry whose dataRID is R.
C26_InsertedFound ==
  bt.leaf # <<>> => \A e \in bt.live : e[2] \in Found(Tree, e[1])

\* only insert has been called, every time with the key data_val and with
\* a dataRID not inserted before, and the leaf of the key has an overflow
\* block
SameKeyInserts(data_val) ==
  /\ bt.inserted # <<>>
  /\ bt.deletes = 0
  /\ \A i \in 1..Len(bt.inserted) : bt.inserted[i][1] = data_val
  /\ \A i, j \in 1..Len(bt.inserted) :
        bt.inserted[i][2] = bt.inserted[j][2] => i = j
  /\ BTreePage_get_flag(
       bt.leaf[BTreeIndex_before_first(Tree, data_val).blk + 1]) >= 0

RECURSIVE SearchFlags(_, _, _)
SearchFlags(D, blk, searchkey) ==
  <<BTreePage_get_flag(D[blk + 1])>> \o
    (IF BTreePage_get_flag(D[blk + 1]) > 0
     THEN SearchFlags(D, BTreeDir_find_child_block(D, blk, searchkey),
                      searchkey)
     ELSE <<>>)

\* the blocks the entries of directory block blk name
Children(D, blk) ==
  {BTreePage_get_child_num(D[blk + 1], slot) :
     slot \in 0..(BTreePage_get_num_recs(D[blk + 1]) - 1)}

\* the directory blocks reached from the blocks S through entries, at most
\* n levels down
RECURSIVE Reached(_, _, _)
Reached(D, S, n) ==
  IF n = 0 THEN S
  ELSE Reached(D,
         S \cup UNION {Children(D, blk) :
                         blk \in {b \in S : BTreePage_get_flag(D[b + 1]) > 0}},
         n - 1)

\* C28: after any operation block 0 of the directory file is the root, its
\* flag is the height of the tree, 0 when its children are leaves and one
\* more for each root split, and every directory block reached from it,
\* through its entries or by a search, has a flag one less than its
\* parent's.
C28_RootHeight ==
  bt.dir # <<>> =>
    /\ BTreePage_get_flag(bt.dir[1]) = bt.newroots
    /\ \A blk \in Reached(bt.dir, {0}, Len(bt.dir)) :
          BTreePage_get_flag(bt.dir[blk + 1]) > 0 =>
            \A child \in Children(bt.dir, blk) :
               BTreePage_get_flag(bt.dir[child + 1]) =
                 BTreePage_get_flag(bt.dir[blk + 1]) - 1
    /\ \A searchkey \in Keys :
          LET flags == SearchFlags(bt.dir, 0, searchkey)
          IN \A i \in 1..Len(flags) : flags[i] = bt.newroots - (i - 1)

\* the files after insert(data_val, data_rid) and then
\* delete(data_val, data_rid)
InsertDelete(T, data_val, data_rid) ==
  BTreeIndex_delete(BTreeIndex_insert(T, data_val, data_rid),
                    data_val, data_rid)

\* C29: inserting an entry (dataval, dataRID) and then deleting that same
\* entry leaves a scan with search key dataval returning the same sequence
\* of dataRIDs as before the insert.
C29_InsertDeleteScan ==
  bt.leaf # <<>> =>
    \A data_val \in Keys, data_rid \in RIDs :
       Scan(InsertDelete(Tree, data_val, data_rid), data_val) =
         Scan(Tree, data_val)

\* what BTreeLeaf.insert of (data_val, data_rid) does to the leaf file
LeafInsert(data_val, data_rid) ==
  BTreeLeaf_insert(bt.leaf, BTreeIndex_before_first(Tree, data_val),
                   data_rid)

\* a page of ti records with no room for one more record
NoRoom(ti, c) ==
  BTreePage_slotpos(ti, BTreePage_get_num_recs(c) + 1) > BLOCK_SIZE

\* after r has split block blk: the boundary lies between distinct keys,
\* both blocks hold records, the directory entry carries the first key of
\* the new block
SplitBetweenKeys(r, blk) ==
  LET old == LeafVals(r.F[blk + 1])
      new == LeafVals(r.F[r.e.blocknum + 1])
  IN /\ Len(old) > 0
     /\ Len(new) > 0
     /\ old[Len(old)] # new[1]
     /\ r.e.dataval = new[1]

LeafRecs(c) ==
  [i \in 1..BTreePage_get_num_recs(c) |->
     <<BTreePage_get_data_val(LeafTi, c, i - 1),
       BTreePage_get_data_rid(c, i - 1)>>]

\* the sequence s without its i-th element
RemoveAt(s, i) == SubSeq(s, 1, i - 1) \o SubSeq(s, i + 1, Len(s))

\* the leaf file G is the leaf file F less one entry e, the first such
\* entry of its block, with every other entry in place
OneEntryLess(F, G, e) ==
  /\ Len(G) = Len(F)
  /\ \E b \in 1..Len(F) :
        /\ \A a \in (1..Len(F)) \ {b} : LeafRecs(G[a]) = LeafRecs(F[a])
        /\ \E i \in 1..Len(LeafRecs(F[b])) :
              /\ LeafRecs(F[b])[i] = e
              /\ \A j \in 1..(i - 1) : LeafRecs(F[b])[j] # e
              /\ LeafRecs(G[b]) = RemoveAt(LeafRecs(F[b]), i)

\* what BTreeLeaf.delete of data_rid does to the leaf file, on the leaf of
\* data_val
LeafDelete(data_val, data_rid) ==
  BTreeLeaf_delete(bt.leaf, BTreeIndex_before_first(Tree, data_val),
                   data_rid)

\* C31: BTreeLeaf.delete(dataRID) removes exactly one leaf entry, the first
\* with the search key and that dataRID, and leaves every other entry in
\* place, later entries with the same key and dataRID included; it removes
\* nothing when no entry matches.
C31_DeleteOne ==
  bt.leaf # <<>> =>
    \A data_val \in Keys, data_rid \in RIDs :
       IF data_rid \in Found(Tree, data_val)
       THEN OneEntryLess(bt.leaf, LeafDelete(data_val, data_rid),
                         <<data_val, data_rid>>)
       ELSE \A b \in 1..Len(bt.leaf) :
               LeafRecs(LeafDelete(data_val, data_rid)[b]) =
                 LeafRecs(bt.leaf[b])

\* the leaf page insert(data_val, .) goes to has an overflow block and a
\* first key above data_val: insert moves the page's records to a new
\* block first
InsertsInFront(data_val) ==
  LET c == bt.leaf[BTreeIndex_before_first(Tree, data_val).blk + 1]
  IN /\ BTreePage_get_flag(c) >= 0
     /\ BTreePage_get_data_val(LeafTi, c, 0) > data_val

\* C32: is_full() is true exactly when the block has no room for one more
\* record, and an insert into a leaf block that still has room returns no
\* directory entry and appends no block.
C32_IsFull ==
  bt.leaf # <<>> =>
    /\ \A b \in 1..Len(bt.leaf) :
          BTreePage_is_full(LeafTi, bt.leaf[b]) <=> NoRoom(LeafTi, bt.leaf[b])
    /\ \A b \in 1..Len(bt.dir) :
          BTreePage_is_full(DirTi, bt.dir[b]) <=> NoRoom(DirTi, bt.dir[b])
    /\ \A data_val \in Keys, data_rid \in RIDs :
          LET r == LeafInsert(data_val, data_rid)
          IN (~InsertsInFront(data_val) /\ ~NoRoom(LeafTi, r.full)) =>
                /\ ~r.e.some
                /\ Len(r.F) = Len(bt.leaf)

\* the records the recovery of a restart undoes, in scan order
RecoveryUndoes ==
  do_recover(LogIterator(LogMgr_iterator(SimpleDB_init_tx(Store))), {})

\* every location of the records in list holds on the disk of S the value
\* a reader of S finds there
OnDisk(S, list) ==
  \A n \in 1..Len(list) :
     S.disk[list[n].blk][list[n].off] =
       Visible(S.bufs, S.disk, list[n].blk, list[n].off)

\* C33: when recover() appends the CHECKPOINT record, every value restored
\* by an undo of that recovery, of a SETINT record as of a SETSTRING
\* record, is on disk.
C33_UndoneOnDisk ==
  [][(~up /\ up') =>
       OnDisk(RecoveryMgr_recover_flushed(SimpleDB_init_tx(Store), 1),
              RecoveryUndoes)]_vars

\* the entries for the block of slot i in the pin lists of the transactions
\* that have neither committed nor rolled back
RECURSIVE Owned(_, _)
Owned(i, ts) ==
  IF ts = {} THEN 0
  ELSE LET t == Min(ts)
       IN (IF Unfinished(t) THEN PinsOn(t, i) ELSE 0) + Owned(i, ts \ {t})

C35_MutexFree ==
  \A t \in Threads : ltab.pc[t] \in {"idle", "call"} => ltab.owner # t

\* C36: when two transactions hold a shared lock on one block and ask for
\* the exclusive lock, neither is granted it while the other still holds its
\* shared lock.
C36_UpgradeWaits ==
  [][\A t \in Tx, u \in Tx, b \in Blocks :
       (/\ t # u /\ Live(t) /\ Live(u)
        /\ locks[t][b] = "S" /\ locks[u][b] = "S"
        /\ locks'[u][b] = "S")
       => locks'[t][b] # "X"]_vars

\* C37: at most one buffer slot is bound to any block, also after a pin of a
\* block at or beyond the end of the file followed by pin_new on that file.
C37_OneSlotPerBlock ==
  \A i \in PoolSlots, j \in PoolSlots :
     (i # j /\ pool.slots[i].blk # NoBlock) =>
        pool.slots[i].blk # pool.slots[j].blk

Quiet == \A t \in Threads : pool.th[t].op = "none"

RECURSIVE HeldBy(_, _)
HeldBy(i, ts) ==
  IF ts = {} THEN 0 ELSE pool.held[Min(ts)][i] + HeldBy(i, ts \ {Min(ts)})

\* C38: when no call of pin, pin_new or unpin is under way, the available
\* count is the number of unpinned slots and every slot's pin count is the
\* number of pins taken on it and not given back, as after any serial order
\* of the calls made.
C38_SerialCounts ==
  Quiet =>
    /\ pool.avail = Cardinality({i \in PoolSlots : pool.slots[i].pins = 0})
    /\ \A i \in PoolSlots : pool.slots[i].pins = HeldBy(i, Threads)

\* thread t moves bytes between the file and a buffer in this step
Transfers(t) ==
  /\ FmAt(t, "readinto") \/ FmAt(t, "write")
  /\ fmgr'.th[t].todo = Tail(fmgr.th[t].todo)

Distinct(s) == \A m \in 1..Len(s), n \in 1..Len(s) : m # n => s[m] # s[n]

\* C39: a read takes its bytes from the block it names and a write puts its
\* bytes at the block it names, whatever the other threads do, and no two
\* appends return the same block number.
C39_FileOpsExclude ==
  [][/\ \A t \in Threads : Transfers(t) => fmgr.pos = fmgr.th[t].blk
     /\ Distinct(fmgr'.blks)]_vars

\* C40: an append of a record larger than BLOCK_SIZE less the 4-byte header
\* raises an error and leaves the log page, its position and the blocks
\* written as they were, and the log page never holds a byte at or beyond
\* offset BLOCK_SIZE.
C40_OversizeRejected ==
  [][/\ (lpage'.appends = lpage.appends + 1
         /\ lpage'.last > BLOCK_SIZE - INT_SIZE)
        => /\ lpage'.raised # "none"
           /\ lpage'.contents = lpage.contents
           /\ lpage'.currentpos = lpage.currentpos
           /\ lpage'.ptrs = lpage.ptrs
           /\ lpage'.written = lpage.written
     /\ Len(lpage'.contents) <= BLOCK_SIZE]_vars
====
